---- MODULE Spec2Model ----
(***************************************************************************)
(* A model of the ifcXML checker (ifcxml-checker): the duplicate-id check, *)
(* the primitive type checker, the reference resolver and the recursive    *)
(* structural validator Validator.check_children, driven by the main       *)
(* program of ifchecker_main.py.                                           *)
(*                                                                         *)
(* Python values are modelled as follows.  Strings are strings; the        *)
(* booleans and None that share a variable with strings (the result of     *)
(* typechecker, is_equal of reference_checker, a rule's result, the        *)
(* called_entity argument) are the strings "True", "False" and "None".     *)
(* An lxml element is a record [tag, parent, attrib, text, beh]; attrib is *)
(* a function whose DOMAIN is the set of attribute keys present, so that   *)
(* `k \in DOMAIN e.attrib` is Python's `k in e.attrib`.  The tree is the   *)
(* sequence of its elements in document order; the index of an element is  *)
(* also its sourceline.  Element 1 is the document root.                   *)
(***************************************************************************)
EXTENDS Integers, Sequences, FiniteSets, TLC

VARIABLES
    tree,       \* Validator.tree: the parsed document
    pc,         \* position of the main program (ifchecker_main.py)
    top,        \* index i of the main loop over the children of the root
    stack,      \* activations of check_children, outermost first
    ifc_list,   \* the context stack passed by reference through the calls
    findings,   \* Validator.validation_df, one record per row
    visits,     \* log: one entry per entry into check_children
    rulelog,    \* log: one entry per invocation getattr(R, rule)(...)
    exc,        \* the exception in flight ("none" when there is none)
    arg,        \* input of a pure function under check
    ret         \* its result

vars == <<tree, pc, top, stack, ifc_list, findings, visits, rulelog, exc, arg, ret>>

\* Bounds of the model
MaxNodes == 3
MaxRefNodes == 3

----------------------------------------------------------------------------
(* Generic helpers *)

Range(s) == {s[i] : i \in 1..Len(s)}

IndexOf(s, x) == CHOOSE i \in 1..Len(s) : s[i] = x /\ \A j \in 1..(i - 1) : s[j] # x

RECURSIVE Concat(_)
Concat(ss) == IF ss = <<>> THEN <<>> ELSE Head(ss) \o Concat(Tail(ss))

RECURSIVE SelectIdx(_, _, _)
\* indices i in lo..hi for which P[i] holds, ascending
SelectIdx(lo, hi, P) ==
    IF lo > hi THEN <<>>
    ELSE (IF P[lo] THEN <<lo>> ELSE <<>>) \o SelectIdx(lo + 1, hi, P)

Perms(S) == {p \in [1..Cardinality(S) -> S] : \A x \in S : \E i \in DOMAIN p : p[i] = x}

----------------------------------------------------------------------------
(* The dictionaries.  They are data prepared offline by create_dict and    *)
(* loaded from pickle files (ifchecker_main.py:22-23); the model fixes a   *)
(* small schema with one slot of every kind that check_children            *)
(* distinguishes.  The records have the shape create_dict gives them: a    *)
(* list that is empty in the source tables is the list [""], and list      *)
(* bounds are strings ("?" is the unbounded marker).                       *)

\* one entry of entity_dict[...]["parameters"]: {ifcname: {...}}
Param(ifcname, ptype, req, is_list, lmin, lmax) ==
    [ifcname |-> ifcname, parameter_type |-> ptype, required |-> req,
     is_list |-> is_list, list_min |-> lmin, list_max |-> lmax,
     list1_min |-> "", list1_max |-> "", list2_min |-> "", list2_max |-> ""]

\* one entry with a double list bound
ParamDouble(ifcname, ptype, req, l1min, l1max, l2min, l2max) ==
    [ifcname |-> ifcname, parameter_type |-> ptype, required |-> req,
     is_list |-> "double", list_min |-> "", list_max |-> "",
     list1_min |-> l1min, list1_max |-> l1max, list2_min |-> l2min, list2_max |-> l2max]

\* one entry of entity_dict[...]["calling_parameters"]
CallingParam(ifcname, req, lmin, lmax, corresponding) ==
    [ifcname |-> ifcname, parameter_type |-> "entity", required |-> req,
     list_min |-> lmin, list_max |-> lmax, corresponding_entity |-> corresponding]

Entity(pnames, params, supers, ref, rules, cnames, cparams, called_as, called_ce) ==
    [parameter_name |-> pnames, parameters |-> params, supertypes |-> supers,
     reference |-> ref, rules_name |-> rules, calling_parameter_name |-> cnames,
     calling_parameters |-> cparams, called_as |-> called_as,
     called_corresponding_entity |-> called_ce]

EntityNames == {"IfcRoot", "IfcA", "IfcB", "IfcB2", "IfcC", "IfcD", "IfcR"}

entities ==
    [n \in EntityNames |->
        CASE n = "IfcRoot" ->
            Entity(<<>>, <<>>, <<"">>, "5.1.3.10", <<"RuleRoot">>, <<"">>, <<>>, <<"">>, <<"">>)
          [] n = "IfcA" ->
            Entity(<<"Name", "Kids", "Part", "Sel", "Sizes">>,
                   <<Param("IfcLabel", "type", TRUE, "no", "-1", "-1"),
                     Param("IfcB", "entity", FALSE, "single", "1", "2"),
                     Param("IfcB", "entity", FALSE, "no", "-1", "-1"),
                     Param("IfcSel", "type", FALSE, "no", "-1", "-1"),
                     Param("IfcInteger", "type", FALSE, "single", "2", "3")>>,
                   <<"IfcRoot">>, "5.4.3.1", <<"RuleA1", "RuleA2">>,
                   <<"Rel", "One">>,
                   <<CallingParam("IfcR", FALSE, "0", "?", "Owner"),
                     CallingParam("IfcR", FALSE, "0", "1", "Owner")>>,
                   <<"">>, <<"">>)
          [] n = "IfcB" ->
            Entity(<<"Count", "Part">>,
                   <<Param("IfcInteger", "type", FALSE, "no", "-1", "-1"),
                     Param("IfcB", "entity", FALSE, "no", "-1", "-1")>>,
                   <<"">>, "8.9.3.1", <<"RuleB">>, <<"">>, <<>>, <<"">>, <<"">>)
          [] n = "IfcB2" ->
            Entity(<<"Count", "Part">>,
                   <<Param("IfcInteger", "type", FALSE, "no", "-1", "-1"),
                     Param("IfcB", "entity", FALSE, "no", "-1", "-1")>>,
                   <<"IfcB", "IfcRoot">>, "8.9.3.2", <<"RuleB2">>, <<"">>, <<>>, <<"">>, <<"">>)
          [] n = "IfcC" ->
            Entity(<<"Name", "Tag", "Sizes", "Codes", "Pair", "Grid", "Mesh", "Angle">>,
                   <<Param("IfcLabel", "type", TRUE, "no", "-1", "-1"),
                     Param("IfcLabel", "type", FALSE, "no", "-1", "-1"),
                     Param("IfcInteger", "type", FALSE, "single", "2", "3"),
                     Param("IfcInteger", "type", FALSE, "single", "1", "?"),
                     Param("IfcInteger", "type", FALSE, "single", "2", "2"),
                     ParamDouble("IfcInteger", "type", FALSE, "1", "2", "2", "2"),
                     ParamDouble("IfcInteger", "type", FALSE, "1", "?", "1", "2"),
                     Param("IfcCompoundPlaneAngleMeasure", "type", FALSE, "no", "-1", "-1")>>,
                   <<"IfcRoot">>, "5.4.3.2", <<"RuleC">>, <<"">>, <<>>, <<"">>, <<"">>)
          [] n = "IfcD" -> \* a list of IfcA, and the relationships of IfcA in
                          \* another role
            Entity(<<"Items">>, <<Param("IfcA", "entity", FALSE, "single", "0", "?")>>,
                   <<"IfcRoot">>, "5.4.3.3", <<"RuleD">>,
                   <<"Rel", "One">>,
                   <<CallingParam("IfcR", FALSE, "0", "?", "Holder"),
                     CallingParam("IfcR", FALSE, "0", "1", "Holder")>>,
                   <<"">>, <<"">>)
          [] OTHER -> \* "IfcR": referred to from IfcA as Rel (for two of its
                     \* roles) and as One
            Entity(<<"Owner", "Part">>,
                   <<Param("IfcA", "entity", TRUE, "no", "-1", "-1"),
                     Param("IfcB", "entity", FALSE, "no", "-1", "-1")>>,
                   <<"IfcRoot">>, "5.1.3.20", <<"RuleR">>, <<"">>, <<>>,
                   <<"Rel", "One", "Rel">>, <<"Other", "Owner", "Owner">>)]

\* one entry of type_dict
TypeDef(kind, deflist) == [type_definition |-> kind, definition_list |-> deflist]

TypeNames == {"IfcLabel", "IfcInteger", "IfcSel", "IfcKindEnum", "IfcLengthMeasure",
              "IfcNormalisedRatioMeasure", "IfcPositiveLengthMeasure",
              "IfcNonNegativeLengthMeasure", "IfcPositiveRatioMeasure",
              "IfcCompoundPlaneAngleMeasure", "IfcDate",
              "IfcFontStyle", "IfcLanguageId", "IfcDescriptiveMeasure", "IfcBoxAlignment"}

types ==
    [n \in TypeNames |->
        CASE n = "IfcLabel" -> TypeDef("Representation/Type", <<"STRING">>)
          [] n = "IfcInteger" -> TypeDef("Representation/Type", <<"INTEGER">>)
          [] n = "IfcSel" -> TypeDef("Select", <<"IfcB", "IfcLabel">>)
          [] n = "IfcKindEnum" -> TypeDef("Enumeration", <<"ONE", "TWO">>)
          [] n = "IfcLengthMeasure" -> TypeDef("Measure", <<"REAL">>)
          [] n = "IfcNormalisedRatioMeasure" -> TypeDef("Representation/MinMax", <<"0", "1">>)
          [] n = "IfcPositiveLengthMeasure" ->
                TypeDef("Representation/ExclusiveMinMax", <<"0", "...">>)
          [] n = "IfcNonNegativeLengthMeasure" ->
                TypeDef("Representation/MinMax", <<"0", "...">>)
          [] n = "IfcPositiveRatioMeasure" ->
                TypeDef("Representation/ExclusiveMinMax", <<"0", "1">>)
          [] n = "IfcCompoundPlaneAngleMeasure" -> TypeDef("Representation/Sequence", <<"">>)
          [] n = "IfcDate" -> TypeDef("Representation/Other", <<"">>)
          \* dictionary kinds whose names the per-kind checkers do not list
          [] n = "IfcFontStyle" -> TypeDef("Representation/Type", <<"STRING">>)
          [] n = "IfcLanguageId" -> TypeDef("Representation/Other", <<"">>)
          [] n = "IfcDescriptiveMeasure" -> TypeDef("Representation/Sequence", <<"">>)
          [] OTHER -> TypeDef("Representation/Choice", <<"top-left", "center">>)]

\* self.type: the key of the type-discriminator attribute (xsi:type)
TypeAttr == "type"

----------------------------------------------------------------------------
(* Raw values.  An attribute value or element text is a Python string.     *)
(* The model draws them from a fixed universe and gives, by table, what    *)
(* the library calls of the source compute on each: re.split(r'\s+', v),   *)
(* int(v), float(v), strtobool(v), len(v), datetime.strptime and the       *)
(* duration pattern.                                                       *)

\* the strings of the universe that contain a blank, with their re.split
SplitTable ==
    [v \in {"1 2", "1 2 3", "1 2 3 4", "1 abc", "10 20 30", "-10 20 30", "10 20 x",
             "10 -20 30 4", "10 60 30", "1 2 3 4 5", "1 2 "} |->
        CASE v = "1 2" -> <<"1", "2">>
          [] v = "1 2 3" -> <<"1", "2", "3">>
          [] v = "1 2 3 4" -> <<"1", "2", "3", "4">>
          [] v = "1 abc" -> <<"1", "abc">>
          [] v = "10 20 30" -> <<"10", "20", "30">>
          [] v = "-10 20 30" -> <<"-10", "20", "30">>
          [] v = "10 -20 30 4" -> <<"10", "-20", "30", "4">>
          [] v = "10 60 30" -> <<"10", "60", "30">>
          [] v = "1 2 3 4 5" -> <<"1", "2", "3", "4", "5">>
          [] v = "1 2 " -> <<"1", "2", "">>
          [] OTHER -> <<"10", "20", "x">>]

\* `" " in str(value)`
HasBlank(v) == v \in DOMAIN SplitTable

\* re.split(r'\s+', str(value))
Split(v) == IF HasBlank(v) THEN SplitTable[v] ELSE <<v>>

\* the strings int() accepts, with their value
IntTable ==
    [v \in {"0", "1", "2", "3", "4", "5", "-1", "10", "20", "30", "-10", "-20", "60"} |->
        CASE v = "0" -> 0 [] v = "1" -> 1 [] v = "2" -> 2 [] v = "3" -> 3 [] v = "4" -> 4
          [] v = "5" -> 5 [] v = "-1" -> -1 [] v = "10" -> 10 [] v = "20" -> 20
          [] v = "30" -> 30 [] v = "-10" -> -10 [] v = "-20" -> -20 [] OTHER -> 60]

\* what stands for float("inf"): more than ten times any number of the universe
Infinity10 == 1000000

\* the strings float() accepts that int() does not, with ten times their value
\* (float("nan") has none: the entry is not used)
FloatTable ==
    [v \in {"0.5", "1.5", "-0.5", "inf", "nan"} |->
        CASE v = "0.5" -> 5 [] v = "1.5" -> 15 [] v = "-0.5" -> -5
          [] v = "inf" -> Infinity10 [] OTHER -> 0]

\* basic.IntConv succeeds: the result is an int
IsInt(v) == v \in DOMAIN IntTable

\* basic.FloatConv succeeds: the result is a float
IsFloat(v) == v \in DOMAIN IntTable \/ v \in DOMAIN FloatTable

\* ten times float(v), for a v with IsFloat(v)
Float10(v) == IF v \in DOMAIN IntTable THEN 10 * IntTable[v] ELSE FloatTable[v]

\* float(v) is the float nan, with which every comparison is false
IsNaN(v) == v = "nan"

\* float(a) > float(b) and float(a) >= float(b)
FloatGt(a, b) == ~IsNaN(a) /\ ~IsNaN(b) /\ Float10(a) > Float10(b)

FloatGe(a, b) == ~IsNaN(a) /\ ~IsNaN(b) /\ Float10(a) >= Float10(b)

\* basic.BoolConv succeeds (distutils strtobool accepts the value)
IsBool(v) == v \in {"true", "false", "1", "0", "yes", "no", "on", "off", "t", "f", "y", "n"}

\* str.lower() on the names and literals of the universe
Lower(v) ==
    CASE v = "TRUE" -> "true" [] v = "FALSE" -> "false" [] v = "UNKNOWN" -> "unknown"
      [] v = "ONE" -> "one" [] v = "TWO" -> "two" [] v = "One" -> "one"
      [] v = "IfcRoot" -> "ifcroot" [] v = "IfcA" -> "ifca" [] v = "IfcB" -> "ifcb"
      [] v = "IfcB2" -> "ifcb2" [] v = "IfcR" -> "ifcr" [] v = "IfcC" -> "ifcc"
      [] v = "IfcD" -> "ifcd"
      [] OTHER -> v

\* the value of the universe that is longer than 255 characters, and the
\* one that has between 23 and 255
LongText == "<text of 300 characters>"
MidText == "<text of 30 characters>"

\* len(value) > n for the two limits the source uses
LongerThan(v, n) == v = LongText \/ (n < 30 /\ v = MidText)

\* datetime.strptime(value, fmt) succeeds
ParsesAs(v, fmt) ==
    CASE fmt = "%Y-%m-%d" -> v \in {"2020-01-31"}
      [] fmt = "%Y-%m-%dT%H:%M:%S" -> v \in {"2020-01-31T10:00:00"}
      [] OTHER -> v \in {"10:00:00"}  \* "%H:%M:%S"

\* the ISO 8601 duration pattern of typechecker_other matches
MatchesDuration(v) == v \in {"P1Y", "PT1H", "P1DT1S"}

\* Python's `not x` for a result that is a bool or a str
Not(c) == c = "False" \/ c = ""

\* isinstance(c, str) for a result that is a bool or a str
IsStr(c) == c \notin {"True", "False"}

\* results that stand for an exception leaving the function
RaiseTypeError == "raise TypeError"
RaiseKeyError == "raise KeyError"
RaiseIndexError == "raise IndexError"

IsRaise(c) == c \in {RaiseTypeError, RaiseKeyError, RaiseIndexError}

----------------------------------------------------------------------------
(* The primitive type checker (validator.py:208-497).  A result is "True", *)
(* "False", a message string, or one of the Raise* markers when an         *)
(* exception leaves the function.                                          *)

\* the sign loop that ends the IfcCompoundPlaneAngleMeasure branch: `val < 0`
\* on a component that IntConv left a str raises TypeError
SameSign(values, converted, correctness) ==
    IF \E k \in 1..Len(values) : ~(k \in converted /\ IsInt(values[k]))
    THEN RaiseTypeError
    ELSE IF /\ \E k \in 1..Len(values) : IntTable[values[k]] < 0
            /\ \E k \in 1..Len(values) : IntTable[values[k]] > 0
         THEN "Not all values have the same sign"
         ELSE correctness

typechecker_sequence(value, typename) ==
    LET values == Split(value)
        n == Len(values)
        nonNegInts == \A k \in 1..n : IsInt(values[k]) /\ IntTable[values[k]] >= 0
        minuteOk(k) == /\ IsInt(values[k])
                       /\ IntTable[values[k]] > -60
                       /\ IntTable[values[k]] < 60
        fourthOk == /\ IsInt(values[4])
                    /\ IntTable[values[4]] > -1000000
                    /\ IntTable[values[4]] < 1000000
    IN  CASE typename = "IfcArcIndex" ->
                IF n # 3 THEN "False" ELSE IF nonNegInts THEN "True" ELSE "False"
          [] typename = "IfcLineIndex" ->
                IF n < 2 THEN "False" ELSE IF nonNegInts THEN "True" ELSE "False"
          [] typename = "IfcPropertySetDefinitionSet" -> "True"
          [] typename = "IfcComplexNumber" ->
                IF n = 1 THEN (IF IsFloat(values[1]) THEN "True" ELSE "False")
                ELSE IF n = 2
                     THEN (IF IsFloat(values[1]) /\ IsFloat(values[2]) THEN "True" ELSE "False")
                     ELSE "False"
          [] typename = "IfcCompoundPlaneAngleMeasure" ->
                IF n = 3 \/ n = 4
                THEN SameSign(values, 1..n,
                        IF /\ IsInt(values[1]) /\ minuteOk(2) /\ minuteOk(3)
                           /\ (n = 4 => fourthOk)
                        THEN "True" ELSE "False")
                ELSE SameSign(values, {}, "False")
          [] OTHER -> "The typename is not in dictionary"

\* IfcBinary: every character is "0" or "1"
IsBinary(v) == v \in {"", "0", "1", "10"}

typechecker_type(value, typename) ==
    LET ok(b) == IF b THEN "True" ELSE "False"
    IN  CASE typename = "IfcBinary" -> ok(IsBinary(value))
          [] typename = "IfcBoolean" -> ok(IsBool(value))
          [] typename = "IfcGloballyUniqueId" -> ok(~LongerThan(value, 22))
          [] typename = "IfcIdentifier" -> ok(~LongerThan(value, 255))
          [] typename = "IfcInteger" -> ok(IsInt(value))
          [] typename = "IfcLabel" -> ok(~LongerThan(value, 255))
          [] typename = "IfcLogical" -> ok(Lower(value) \in {"true", "false", "unknown"})
          [] typename = "IfcNumericMeasure" -> ok(IsFloat(value))
          [] typename = "IfcParameterValue" -> ok(IsFloat(value))
          [] typename = "IfcPositiveInteger" -> ok(IsInt(value) /\ IntTable[value] > 0)
          [] typename = "IfcReal" -> ok(IsFloat(value))
          [] typename = "IfcText" -> "True"
          [] OTHER -> "The typename is not in dictionary"

typechecker_other(value, typename) ==
    LET ok(b) == IF b THEN "True" ELSE "False"
    IN  CASE typename = "IfcDate" -> ok(ParsesAs(value, "%Y-%m-%d"))
          [] typename = "IfcDateTime" -> ok(ParsesAs(value, "%Y-%m-%dT%H:%M:%S"))
          [] typename = "IfcDuration" -> ok(MatchesDuration(value))
          [] typename = "IfcTime" -> ok(ParsesAs(value, "%H:%M:%S"))
          [] typename = "IfcTimeStamp" -> ok(IsInt(value))
          [] typename = "IfcURIReference" -> "True"
          [] typename = "IfcPresentableText" -> "True"
          [] OTHER -> "The typename is not in dictionary"

\* `if not current_val_correctness: correctness = current_val_correctness`
KeepIfNot(current_val_correctness, correctness) ==
    IF Not(current_val_correctness) THEN current_val_correctness ELSE correctness

\* one pass of the body of `for i, val in enumerate(values)` (lines 421-492):
\* the correctness after the pass, given the one before it
typechecker_value(val, typename, correctness) ==
    LET type_type == types[typename].type_definition
        deflist == types[typename].definition_list
        last == deflist[Len(deflist)]
        min_value == deflist[1]
        max_value == last
        isin == \E k \in 1..Len(deflist) : Lower(deflist[k]) = Lower(val)
    IN  CASE type_type = "Enumeration" -> IF isin THEN correctness ELSE "False"
          [] type_type = "Measure" ->
                CASE last = "REAL" -> IF IsFloat(val) THEN correctness ELSE "False"
                  [] last = "STRING" -> correctness
                  [] last = "NUMBER" -> IF IsFloat(val) THEN correctness ELSE "False"
                  [] OTHER -> "Measure type has not been found"
          [] type_type = "Representation/MinMax" ->
                IF ~IsFloat(val) THEN "False"
                ELSE IF max_value = "..."
                     THEN (IF FloatGt(min_value, val) THEN "False" ELSE correctness)
                     ELSE (IF FloatGt(min_value, val) \/ FloatGt(val, max_value)
                           THEN "False" ELSE correctness)
          [] type_type = "Representation/ExclusiveMinMax" ->
                IF ~IsFloat(val) THEN "False"
                ELSE IF max_value = "..."
                     THEN (IF FloatGe(min_value, val) THEN "False" ELSE correctness)
                     ELSE (IF FloatGe(min_value, val) \/ FloatGt(val, max_value)
                           THEN "False" ELSE correctness)
          [] type_type = "Representation/Choice" -> IF isin THEN correctness ELSE "False"
          [] type_type = "Representation/Type" ->
                KeepIfNot(typechecker_type(val, typename), correctness)
          [] type_type = "Representation/Other" ->
                KeepIfNot(typechecker_other(val, typename), correctness)
          [] type_type = "Select" -> "type_type is select?"
          [] OTHER -> "Unknown file_type: " \o typename \o ", " \o type_type \o ", " \o val

RECURSIVE typechecker_loop(_, _, _, _)
\* the loop of lines 421-495 from index i on, returning at the first value
\* that leaves correctness falsy
typechecker_loop(values, i, typename, correctness) ==
    IF i > Len(values) \/ Not(correctness) THEN correctness
    ELSE typechecker_loop(values, i + 1, typename,
                          typechecker_value(values[i], typename, correctness))

\* is_list is "no", "single", "double", or "False" (the bool the select and
\* double-list call sites pass)
typechecker(value, typename, is_list) ==
    IF typename \notin DOMAIN types THEN RaiseKeyError
    ELSE IF types[typename].type_definition = "Representation/Sequence"
         THEN LET current_val_correctness == typechecker_sequence(value, typename)
              IN  IF IsRaise(current_val_correctness) THEN current_val_correctness
                  ELSE KeepIfNot(current_val_correctness, "True")
         ELSE LET values == IF is_list # "no" /\ HasBlank(value) THEN Split(value)
                            ELSE <<value>>
              IN  typechecker_loop(values, 1, typename, "True")

----------------------------------------------------------------------------
(* The document.  Validator.tree is an lxml tree; element 1 is the root    *)
(* (ifcXML), element 2 its first child, the header that the main loop      *)
(* skips.  beh tells what the formal propositions of Rules do on the       *)
(* element: every rule invoked on it returns None ("ok"), returns a        *)
(* message ("viol") or raises ("raise").                                   *)

NoAttrib == [k \in {} |-> ""]

Elem(tag, attrib, text, beh) ==
    [tag |-> tag, parent |-> 0, attrib |-> attrib, text |-> text, beh |-> beh]

\* the elements that may stand below an element with the given tag in the
\* documents of the structural pass
WalkTemplates(tag) ==
    CASE tag = "ifcXML" ->
            {Elem("IfcA", [id |-> "a", Name |-> "x"], "None", "ok"),
             Elem("IfcA", [id |-> "a", Name |-> "x"], "None", "raise"),
             Elem("IfcA", [id |-> "a"], "None", "viol"),
             Elem("IfcA", [Name |-> "x"], "None", "ok"),
             Elem("IfcA", [Name |-> "x"], "None", "raise"),
             Elem("IfcZ", [id |-> "b"], "None", "ok"),
             Elem("IfcB", [id |-> "b"], "None", "ok")}
      [] tag \in {"Kids", "Sel", "Rel"} ->
            {Elem("IfcB", [id |-> "b"], "None", "ok"),
             Elem("IfcB", [Bogus |-> "1"], "None", "ok"),
             Elem("IfcB", [ref |-> "q"], "None", "ok"),
             Elem("IfcB", [ref |-> "a"], "None", "ok"),
             Elem("IfcZ", [id |-> "c"], "None", "ok"),
             Elem("IfcZ", [ref |-> "q"], "None", "ok"),
             Elem("IfcB2", [id |-> "c"], "None", "viol"),
             Elem("IfcR", [id |-> "c"], "None", "ok"),
             Elem("IfcLabel-wrapper", NoAttrib, "x", "ok"),
             Elem("IfcLabel-wrapper", [ref |-> "q"], "x", "ok")}
      [] tag \in {"header", "Junk", "IfcLabel-wrapper", "IfcZ"} -> {}
      [] OTHER ->
            {Elem("Kids", NoAttrib, "None", "ok"),
             Elem("Part", NoAttrib, "None", "ok"),
             Elem("Part", [id |-> "c", type |-> "IfcB2"], "None", "viol"),
             Elem("Sel", NoAttrib, "None", "ok"),
             Elem("Rel", NoAttrib, "None", "ok"),
             Elem("One", [id |-> "c"], "None", "ok"),
             Elem("Junk", NoAttrib, "None", "ok")}

\* the elements that may stand below an element with the given tag in the
\* documents of references
RefTemplates(tag) ==
    CASE tag = "ifcXML" ->
            {Elem("IfcB", [id |-> "r"], "None", "ok"),
             Elem("IfcB2", [id |-> "r"], "None", "ok"),
             Elem("IfcB", [id |-> "r", type |-> "IfcB2"], "None", "ok"),
             Elem("IfcA", [id |-> "s"], "None", "ok"),
             Elem("IfcB", [ref |-> "r"], "None", "ok"),
             Elem("IfcB2", [ref |-> "r"], "None", "ok"),
             Elem("IfcB", [ref |-> "r", type |-> "IfcB2"], "None", "ok"),
             Elem("IfcA", [ref |-> "s"], "None", "ok")}
      [] tag \in {"IfcA", "IfcB", "IfcB2"} ->
            {Elem("Part", [id |-> "r", type |-> "IfcB"], "None", "ok"),
             Elem("Part", [ref |-> "r", type |-> "IfcB"], "None", "ok")}
      [] OTHER -> {}

RootElem == Elem("ifcXML", NoAttrib, "None", "ok")
HeaderElem == [Elem("header", NoAttrib, "None", "ok") EXCEPT !.parent = 1]

RECURSIVE AncestorsOrSelf(_, _)
AncestorsOrSelf(t, n) == IF n = 0 THEN {} ELSE {n} \cup AncestorsOrSelf(t, t[n].parent)

\* the elements that may stand below an element with the given tag, for each
\* family of documents
Templates(family, tag) ==
    CASE family = "walk" -> WalkTemplates(tag)
      [] family = "ref" -> RefTemplates(tag)

\* the documents with one more element than t, appended in document order
Extend(t, family) ==
    UNION {{Append(t, [e EXCEPT !.parent = p]) : e \in Templates(family, t[p].tag)} :
              p \in AncestorsOrSelf(t, Len(t))}

\* the document before its first element below the root and the header is read
EmptyDoc == <<RootElem, HeaderElem>>

\* list(element): the children of element n, in document order
Children(n) == SelectIdx(1, Len(tree), [i \in 1..Len(tree) |-> tree[i].parent = n])

\* tree.findall(".//*[@id]"): the descendants of the root that carry an id
FindAllId == SelectIdx(2, Len(tree), [i \in 1..Len(tree) |-> "id" \in DOMAIN tree[i].attrib])

\* tree.findall(".//*[@ref='identifier']")
FindAllRef(identifier) ==
    SelectIdx(2, Len(tree), [i \in 1..Len(tree) |->
        "ref" \in DOMAIN tree[i].attrib /\ tree[i].attrib["ref"] = identifier])

\* element.find(tag): the first child with that tag, 0 for None
Find(n, tag) ==
    LET hits == SelectIdx(1, Len(tree), [i \in 1..Len(tree) |->
                    tree[i].parent = n /\ tree[i].tag = tag])
    IN  IF hits = <<>> THEN 0 ELSE hits[1]

----------------------------------------------------------------------------
(* Findings: one row of validation_df (add_to_csv, validator.py:60-75).    *)
(* line is the list of source lines: one line for every finding but the    *)
(* duplicate-id finding, which carries the list of all of them.            *)

Finding(line, index, error_type, error_message, rule_name, entity_type, attribute_type, link, document_reference) ==
    [line |-> line, id |-> index, error_type |-> error_type,
     error_message |-> error_message, rule_name |-> rule_name,
     entity_type |-> entity_type, attribute_type |-> attribute_type,
     link |-> link, document_reference |-> document_reference]

----------------------------------------------------------------------------
(* Validator.unique_ids (validator.py:165-205) *)

\* the order of Python's str comparison on the ids of the universe
IdRank(uid) == CASE uid = "a" -> 1 [] uid = "b" -> 2 [] uid = "c" -> 3 [] OTHER -> 4

RECURSIVE Insert(_, _)
Insert(sorted, uid) ==
    IF sorted = <<>> THEN <<uid>>
    ELSE IF IdRank(uid) <= IdRank(Head(sorted)) THEN <<uid>> \o sorted
         ELSE <<Head(sorted)>> \o Insert(Tail(sorted), uid)

RECURSIVE Sort(_)
\* list.sort()
Sort(ids) == IF ids = <<>> THEN <<>> ELSE Insert(Sort(Tail(ids)), Head(ids))

\* all_ids after the first loop and the sort (lines 174-177)
AllIdsSorted == Sort([k \in 1..Len(FindAllId) |-> tree[FindAllId[k]].attrib["id"]])

\* the element before position i of the scan, with Python's all_ids[i-1]:
\* for the first position that is all_ids[-1], the last element
Previous(all_ids, i) == IF i = 1 THEN all_ids[Len(all_ids)] ELSE all_ids[i - 1]

\* set(double_ids) after the scan of lines 178-180
DoubleIds ==
    LET all_ids == AllIdsSorted
    IN  {all_ids[i] : i \in {j \in 1..Len(all_ids) : all_ids[j] = Previous(all_ids, j)}}

\* double_id_lines[...] for one id (lines 194-197)
DoubleIdLines(uid) ==
    LET hits == SelectIdx(1, Len(FindAllId),
                    [k \in 1..Len(FindAllId) |-> tree[FindAllId[k]].attrib["id"] = uid])
    IN  [k \in 1..Len(hits) |-> FindAllId[hits[k]]]

\* the findings unique_ids appends when list(set(double_ids)) comes out in
\* the given order (lines 199-205)
unique_ids(double_ids) ==
    [i \in 1..Len(double_ids) |->
        Finding(DoubleIdLines(double_ids[i]), double_ids[i], "ID",
                "Multiple elements are using the same ID.", "", "", "", "", "")]

----------------------------------------------------------------------------
(* Validator.reference_checker (validator.py:500-523) *)

\* the comparison of lines 514-521 between the target elem and the entity
IsEqual(elem, entity) ==
    LET e == tree[elem].attrib
        a == tree[entity].attrib
    IN  IF TypeAttr \in DOMAIN e /\ TypeAttr \in DOMAIN a THEN e[TypeAttr] = a[TypeAttr]
        ELSE IF TypeAttr \in DOMAIN e THEN e[TypeAttr] = tree[entity].tag
        ELSE IF TypeAttr \in DOMAIN a THEN tree[elem].tag = a[TypeAttr]
        ELSE tree[elem].tag = tree[entity].tag

\* the elements of findall(".//*[@id]") whose id is the ref of the entity
RefTargets(entity) ==
    SelectIdx(1, Len(FindAllId), [k \in 1..Len(FindAllId) |->
        tree[FindAllId[k]].attrib["id"] = tree[entity].attrib["ref"]])

reference_checker(entity) ==
    LET hits == RefTargets(entity)
    IN  IF hits = <<>> THEN [found_ref |-> FALSE, is_equal |-> "None"]
        ELSE [found_ref |-> TRUE,
              is_equal |-> IF IsEqual(FindAllId[hits[1]], entity) THEN "True" ELSE "False"]

----------------------------------------------------------------------------
(* Validator.dict_chapter (validator.py:78-162) and the documentation link *)

\* the first two numbers of a reference that has a third ("5.4.3.1" starts
\* with "5.4."), <<0, 0>> for any other string
RefHead(reference) ==
    CASE reference \in {"5.1.3.10", "5.1.3.20"} -> <<5, 1>>
      [] reference \in {"5.4.3.1", "5.4.3.2", "5.4.3.3"} -> <<5, 4>>
      [] reference \in {"8.9.3.1", "8.9.3.2"} -> <<8, 9>>
      [] OTHER -> <<0, 0>>

dict_chapter(reference) ==
    LET h == RefHead(reference)
    IN  CASE h = <<5, 1>> -> "ifckernel"
          [] h = <<5, 2>> -> "ifccontrolextension"
          [] h = <<5, 3>> -> "ifcprocessextension"
          [] h = <<5, 4>> -> "ifcproductextension"
          [] h = <<6, 1>> -> "ifcsharedbldgelements"
          [] h = <<6, 2>> -> "ifcsharedbldgserviceelements"
          [] h = <<6, 3>> -> "ifcsharedcomponentelements"
          [] h = <<6, 4>> -> "ifcsharedfacilitieselements"
          [] h = <<6, 5>> -> "ifcsharedmgmtelements"
          [] h = <<7, 1>> -> "ifcarchitecturedomain"
          [] h = <<7, 2>> -> "ifcbuildingcontrolsdomain"
          [] h = <<7, 3>> -> "ifcconstructionmgmtdomain"
          [] h = <<7, 4>> -> "ifcelectricaldomain"
          [] h = <<7, 5>> -> "ifchvacdomain"
          [] h = <<7, 6>> -> "ifcplumbingfireprotectiondomain"
          [] h = <<7, 7>> -> "ifcstructuralanalysisdomain"
          [] h = <<7, 8>> -> "ifcstructuralelementsdomain"
          [] h = <<8, 1>> -> "ifcactorresource"
          [] h = <<8, 2>> -> "ifcapprovalresource"
          [] h = <<8, 3>> -> "ifcconstraintresource"
          [] h = <<8, 4>> -> "ifccostresource"
          [] h = <<8, 5>> -> "ifcdatetimeresource"
          [] h = <<8, 6>> -> "ifcexternalreferenceresource"
          [] h = <<8, 7>> -> "ifcgeometricconstraintresource"
          [] h = <<8, 8>> -> "ifcgeometricmodelresource"
          [] h = <<8, 9>> -> "ifcgeometryresource"
          [] h = <<8, 10>> -> "ifcmaterialresource"
          [] h = <<8, 11>> -> "ifcmeasureresource"
          [] h = <<8, 12>> -> "ifcpresentationappearanceresource"
          [] h = <<8, 13>> -> "ifcpresentationdefinitionresource"
          [] h = <<8, 14>> -> "ifcpresentationorganizationresource"
          [] h = <<8, 15>> -> "ifcprofileresource"
          [] h = <<8, 16>> -> "ifcpropertyresource"
          [] h = <<8, 17>> -> "ifcquantityresource"
          [] h = <<8, 18>> -> "ifcrepresentationresource"
          [] h = <<8, 19>> -> "ifcstructuralloadresource"
          [] h = <<8, 20>> -> "ifctopologyresource"
          [] h = <<8, 21>> -> "ifcutilityresource"
          [] OTHER -> "None"

docpage == "https://standards.buildingsmart.org/IFC/RELEASE/IFC4/ADD2_TC1/HTML/schema/"

\* docpage + str(dict_chapter) + "/lexical/" + name.lower() + ".htm"
Link(name) ==
    docpage \o dict_chapter(entities[name].reference) \o "/lexical/" \o Lower(name) \o ".htm"

----------------------------------------------------------------------------
(* The checks of the full-validation branch before the rules               *)
(* (validator.py:565-903).  They are computed as the sequence of rows the  *)
(* code tries to append, in order; an entry whose error_type is a Raise*   *)
(* marker stands for an exception raised at that point, which ends the     *)
(* sequence (Cut).                                                         *)

Raise(kind) == Finding(<<>>, "", kind, "", "", "", "", "", "")

RECURSIVE FirstRaise(_, _)
\* the position of the first exception among the entries from i on, else 0
FirstRaise(emits, i) ==
    IF i > Len(emits) THEN 0
    ELSE IF IsRaise(emits[i].error_type) THEN i ELSE FirstRaise(emits, i + 1)

\* the rows appended before the first exception
Cut(emits) ==
    LET r == FirstRaise(emits, 1)
    IN  IF r = 0 THEN emits ELSE SubSeq(emits, 1, r - 1)

\* the exception that ends the sequence, "none" when there is none
Raised(emits) ==
    LET r == FirstRaise(emits, 1)
    IN  IF r = 0 THEN "none" ELSE emits[r].error_type

\* a row whose id column is element.attrib["id"]: building it raises
\* KeyError when the element carries no id
IdFinding(line, element, error_type, error_message, rule_name, entity_type, attribute_type, link, document_reference) ==
    IF "id" \in DOMAIN tree[element].attrib
    THEN <<Finding(<<line>>, tree[element].attrib["id"], error_type, error_message,
                   rule_name, entity_type, attribute_type, link, document_reference)>>
    ELSE <<Raise(RaiseKeyError)>>

\* current_entity_children (lines 569-586): the tags of the accepted children
AcceptedChildren(n, ifcname) ==
    LET ch == Children(n)
        ok == SelectIdx(1, Len(ch), [k \in 1..Len(ch) |->
                  \/ tree[ch[k]].tag \in Range(entities[ifcname].parameter_name)
                  \/ tree[ch[k]].tag \in Range(entities[ifcname].calling_parameter_name)])
    IN  [k \in 1..Len(ok) |-> tree[ch[ok[k]]].tag]

\* lines 571-582: one Unknown child row per child that is not accepted
UnknownChildren(n, ifcname, link, docref) ==
    LET ch == Children(n)
    IN  Concat([k \in 1..Len(ch) |->
            IF /\ tree[ch[k]].tag \notin Range(entities[ifcname].parameter_name)
               /\ tree[ch[k]].tag \notin Range(entities[ifcname].calling_parameter_name)
            THEN IdFinding(n, n, "Unknown child",
                    "The element " \o tree[ch[k]].tag
                        \o " is not a valid entity/child for the current entity type "
                        \o ifcname \o " according to the documentation.",
                    "", ifcname, "", link, docref)
            ELSE <<>>])

\* lines 588-593: a declared child occurs more than once
DuplicateChildren(n, ifcname, link, docref) ==
    LET acc == AcceptedChildren(n, ifcname)
    IN  IF Len(acc) # Cardinality(Range(acc))
        THEN IdFinding(n, n, "List size violation",
                "One of the children of the current entity occurs too often.",
                "", ifcname, "", link, docref)
        ELSE <<>>

\* the attribute keys of the universe, in the order they stand on an element
AttrOrder ==
    <<"id", "ref", "type", "nil", "pos", "Name", "Tag", "Count", "Sizes", "Codes", "Pair",
      "Grid", "Mesh", "Angle", "Bogus">>

standard_attributes_list == {TypeAttr, "ref", "id", "nil", "pos"}

\* lines 596-611: one Unknown attribute row per undeclared attribute; the id
\* column is the id or, failing that, attrib["ref"]
UnknownAttributes(n, ifcname, link, docref) ==
    Concat([k \in 1..Len(AttrOrder) |->
        LET attr == AttrOrder[k]
            a == tree[n].attrib
        IN  IF /\ attr \in DOMAIN a
               /\ attr \notin Range(entities[ifcname].parameter_name)
               /\ attr \notin standard_attributes_list
            THEN IF "id" \notin DOMAIN a /\ "ref" \notin DOMAIN a
                 THEN <<Raise(RaiseKeyError)>>
                 ELSE <<Finding(<<n>>, IF "id" \in DOMAIN a THEN a["id"] ELSE a["ref"],
                            "Unknown attribute",
                            "The attribute " \o attr
                                \o " is unknown according to the documentation.",
                            "", ifcname, "", link, docref)>>
            ELSE <<>>])

\* the tags of the universe that end in "-wrapper", with
\* re.sub("-wrapper", "", tag)
WrapperTable ==
    [t \in {"IfcLabel-wrapper", "IfcInteger-wrapper", "IfcB-wrapper"} |->
        CASE t = "IfcLabel-wrapper" -> "IfcLabel"
          [] t = "IfcInteger-wrapper" -> "IfcInteger"
          [] OTHER -> "IfcB"]

\* tag.endswith("-wrapper")
IsWrapper(tag) == tag \in DOMAIN WrapperTable

\* re.sub("-wrapper", "", tag)
Unwrap(tag) == IF IsWrapper(tag) THEN WrapperTable[tag] ELSE tag

\* tag.startswith("Ifc")
StartsWithIfc(tag) ==
    tag \in {"IfcRoot", "IfcA", "IfcB", "IfcB2", "IfcC", "IfcD", "IfcR", "IfcZ",
             "IfcLabel-wrapper", "IfcInteger-wrapper", "IfcB-wrapper"}

\* element.text as the value typechecker works on (None becomes "")
TextValue(e) == IF tree[e].text = "None" THEN "" ELSE tree[e].text

\* int() of a list bound of the dictionary
IntOf(s) == IntTable[s]

\* the message an attribute check leaves in error_msg for a typechecker
\* result (lines 698-704, 785-789, 848-854); "None" when it leaves none
TypeMessage(correctness, current_param, text) ==
    IF IsStr(correctness) THEN correctness \o " (" \o current_param \o ")"
    ELSE IF Not(correctness)
         THEN "The attribute " \o current_param \o " has a prohibited value." \o text
         ELSE "None"

\* error_msg after the lines that follow a call of typechecker (698-704,
\* 785-789, 848-854), given what the call returned; a Raise* marker when the
\* call raised
TypeOutcome(correctness, current_param, text, error_msg) ==
    IF IsRaise(correctness) THEN correctness
    ELSE IF TypeMessage(correctness, current_param, text) = "None" THEN error_msg
         ELSE TypeMessage(correctness, current_param, text)

\* one pass of the loop of lines 669-704 over the elements of a select
\* child: the error_msg it leaves, or a Raise* marker
SelectElement(elem, current_param, select_list, error_msg) ==
    LET curr_param == tree[elem].tag
        child_type == Unwrap(curr_param)
    IN  IF ~IsWrapper(curr_param) /\ curr_param \notin Range(select_list)
        THEN IF curr_param \notin DOMAIN entities THEN RaiseKeyError
             ELSE IF Range(entities[curr_param].supertypes) \cap Range(select_list) = {}
                  THEN "Chosen entity " \o current_param
                           \o " is not reflected in the select list."
                  ELSE error_msg
        ELSE IF IsWrapper(curr_param) /\ child_type \notin Range(select_list)
             THEN "Chosen type " \o child_type \o " is not reflected in the select list."
             ELSE IF IsWrapper(curr_param)
                  THEN TypeOutcome(typechecker(TextValue(elem), child_type, "False"),
                           current_param,
                           " The value '" \o TextValue(elem)
                               \o "' does not fit the corresponding type "
                               \o child_type \o ".",
                           error_msg)
                  ELSE error_msg

RECURSIVE SelectLoop(_, _, _, _, _)
\* the loop of lines 669-704 from position k on: the error_msg it leaves, or
\* the Raise* marker of the pass that raised
SelectLoop(elems, k, current_param, select_list, error_msg) ==
    IF k > Len(elems) \/ IsRaise(error_msg) THEN error_msg
    ELSE SelectLoop(elems, k + 1, current_param, select_list,
                    SelectElement(elems[k], current_param, select_list, error_msg))

RECURSIVE SelectRefLoop(_, _, _, _)
\* the loop of lines 742-750 over the children of the entity from position
\* k on: the <<error_msg, error_type>> it leaves, or <<Raise* marker, "">>
SelectRefLoop(ch, k, current_param, state) ==
    IF k > Len(ch) THEN state
    ELSE IF tree[ch[k]].tag # current_param
         THEN SelectRefLoop(ch, k + 1, current_param, state)
         ELSE IF Children(ch[k]) = <<>> THEN <<RaiseIndexError, "">>
              ELSE IF "ref" \notin DOMAIN tree[Children(ch[k])[1]].attrib
                   THEN SelectRefLoop(ch, k + 1, current_param, state)
                   ELSE SelectRefLoop(ch, k + 1, current_param,
                            IF ~reference_checker(Children(ch[k])[1]).found_ref
                            THEN <<"Referenced id can not be found.", "Reference">>
                            ELSE IF reference_checker(Children(ch[k])[1]).is_equal = "False"
                                 THEN <<"The reference type is not matching.", "Reference">>
                                 ELSE state)

\* the row of lines 859-867 for the error_msg and error_type an attribute
\* check ends with; when the check raised there is no row, the exception
\* leaves check_children
AttributeFinding(n, ifcname, current_param_ifcname, error_type, error_msg, link, docref) ==
    IF error_msg = "None" THEN <<>>
    ELSE IF IsRaise(error_msg) THEN <<Raise(error_msg)>>
         ELSE IdFinding(n, n, error_type, error_msg, "", ifcname,
                        IF error_type = "Type" THEN current_param_ifcname ELSE "",
                        link, docref)

\* the list_viol_msg of lines 706-731 for a select child with len elements;
\* "None" when list_viol stays False
SelectViolation(param, current_param, len) ==
    LET list_min == IF param.is_list = "double"
                    THEN IntOf(param.list1_min) * IntOf(param.list2_min)
                    ELSE IF param.is_list = "single" THEN IntOf(param.list_min)
                    ELSE IF param.required THEN 1 ELSE 0
        unbounded == IF param.is_list = "double"
                     THEN param.list1_max = "?" \/ param.list2_max = "?"
                     ELSE param.is_list = "single" /\ param.list_max = "?"
        list_max == IF param.is_list = "double"
                    THEN IntOf(param.list1_max) * IntOf(param.list2_max)
                    ELSE IF param.is_list = "single" THEN IntOf(param.list_max) ELSE 1
    IN  IF ~unbounded /\ len > list_max
        THEN "The select attribute " \o current_param \o " has too many children."
        ELSE IF len < list_min
             THEN "The select attribute " \o current_param \o " has too few children."
             ELSE IF /\ param.is_list = "double"
                     /\ param.list2_max # "?"
                     /\ IntOf(param.list2_min) = IntOf(param.list2_max)
                     /\ len % IntOf(param.list2_min) # 0
                  THEN "The number of child elements of the select attribute "
                           \o current_param \o " is not correct (double list error)."
                  ELSE "None"

\* lines 733-750 and 859-867: the rows of a select child once the loop over
\* its elements left msg1 and the count of its elements left list_viol_msg
SelectRows(n, ifcname, current_param, typename, msg1, list_viol_msg, link, docref) ==
    LET state == SelectRefLoop(Children(n), 1, current_param,
                     <<msg1, IF list_viol_msg = "None" THEN "Type"
                             ELSE "List size violation">>)
    IN  IF IsRaise(msg1) THEN <<Raise(msg1)>>
        ELSE (IF list_viol_msg = "None" THEN <<>>
              ELSE IdFinding(n, n, "List size violation", list_viol_msg, "", ifcname,
                             current_param, link, docref))
             \o AttributeFinding(n, ifcname, typename, state[2], state[1], link, docref)

\* lines 650-750: a select-typed attribute that is not a raw attribute
SelectChild(n, ifcname, current_param, param, link, docref) ==
    LET param_found == Find(n, current_param)
        all == Children(param_found)
    IN  IF param_found = 0
        THEN IF param.required
             THEN IdFinding(n, n, "Missing Information",
                     "Required select child " \o current_param \o " does not exist.",
                     "", ifcname, "", link, docref)
             ELSE <<>>
        ELSE IF param.is_list = "no" /\ all = <<>> THEN <<Raise(RaiseIndexError)>>
        ELSE SelectRows(n, ifcname, current_param, param.ifcname,
                 SelectLoop(IF param.is_list = "no" THEN <<all[1]>> ELSE all, 1,
                            current_param, types[param.ifcname].definition_list, "None"),
                 SelectViolation(param, current_param,
                                 IF param.is_list = "no" THEN 1 ELSE Len(all)),
                 link, docref)

\* one pass of the loop of lines 773-789 over the elements of a double-list
\* child: the error_msg it leaves, or a Raise* marker
DoubleElement(elem, current_param, current_param_ifcname, error_msg) ==
    LET child_type == Unwrap(tree[elem].tag)
    IN  IF child_type # current_param_ifcname /\ child_type \notin DOMAIN entities
        THEN RaiseKeyError
        ELSE IF /\ child_type # current_param_ifcname
                /\ current_param_ifcname \notin Range(entities[child_type].supertypes)
             THEN "Chosen type " \o child_type \o " is not reflected in the select list."
             ELSE TypeOutcome(typechecker(TextValue(elem), child_type, "False"),
                              current_param, "", error_msg)

RECURSIVE DoubleLoop(_, _, _, _, _)
\* the loop of lines 773-789 from position k on
DoubleLoop(elems, k, current_param, current_param_ifcname, error_msg) ==
    IF k > Len(elems) \/ IsRaise(error_msg) THEN error_msg
    ELSE DoubleLoop(elems, k + 1, current_param, current_param_ifcname,
                    DoubleElement(elems[k], current_param, current_param_ifcname, error_msg))

\* lines 755-789: a double-list attribute that is not a raw attribute
DoubleChild(n, ifcname, current_param, param, link, docref) ==
    LET double_param == Find(n, current_param)
        elems == Children(double_param)
    IN  IF double_param = 0
        THEN IF param.required
             THEN IdFinding(n, n, "Missing Information",
                     "Required attribute " \o current_param \o " does not exist.",
                     "", ifcname, "", link, docref)
             ELSE <<>>
        ELSE IF Len(elems) < IntOf(param.list1_min)
             THEN IdFinding(n, n, "List size violation",
                     "The attribute " \o current_param
                         \o " has too little values. (double list error)",
                     "", ifcname, "", link, docref)
             ELSE IF param.list1_max # "?" /\ Len(elems) > IntOf(param.list1_max)
                  THEN IdFinding(n, n, "List size violation",
                          "The attribute " \o current_param
                              \o " has too many values. (double list error)",
                          "", ifcname, "", link, docref)
                  ELSE AttributeFinding(n, ifcname, param.ifcname, "Type",
                           DoubleLoop(elems, 1, current_param, param.ifcname, "None"),
                           link, docref)

\* the list_viol_msg of lines 806-837 for a raw attribute with k values;
\* "None" when list_viol stays False
ListViolation(param, current_param, k) ==
    CASE param.is_list = "single" ->
            IF k < IntOf(param.list_min)
            THEN "The attribute " \o current_param \o " has too few values."
            ELSE IF param.list_max # "?" /\ k > IntOf(param.list_max)
                 THEN "The attribute " \o current_param \o " has too many values."
                 ELSE "None"
      [] param.is_list = "double" ->
            IF k < IntOf(param.list1_min) * IntOf(param.list2_min)
            THEN "The attribute " \o current_param \o " has too little values."
            ELSE IF /\ param.list2_max # "?"
                    /\ IntOf(param.list2_min) = IntOf(param.list2_max)
                    /\ k % IntOf(param.list2_min) # 0
                 THEN "The number of values in the attribute is not correct (double list error)."
                 ELSE IF /\ param.list1_max # "?" /\ param.list2_max # "?"
                         /\ k > IntOf(param.list1_max) * IntOf(param.list2_max)
                      THEN "The attribute " \o current_param \o " has too many values."
                      ELSE "None"
      [] OTHER -> "None"

\* lines 804-867: a raw attribute with a non-empty value; a list violation
\* leaves error_type at "List size violation" (line 839) for the row of the
\* type check that follows
RawAttribute(n, ifcname, current_param, param, link, docref) ==
    LET attr_value == tree[n].attrib[current_param]
        list_viol_msg == ListViolation(param, current_param, Len(Split(attr_value)))
    IN  (IF list_viol_msg = "None" THEN <<>>
         ELSE IdFinding(n, n, "List size violation", list_viol_msg, "", ifcname,
                        current_param, link, docref))
        \o AttributeFinding(n, ifcname, param.ifcname,
               IF list_viol_msg = "None" THEN "Type" ELSE "List size violation",
               TypeOutcome(typechecker(attr_value, param.ifcname, param.is_list),
                   current_param,
                   " Value (or list of values) " \o attr_value \o " should be of type "
                       \o param.ifcname,
                   "None"),
               link, docref)

\* lines 642-867: the checks of one declared parameter of kind "type"
TypeParameter(n, ifcname, current_param, param, link, docref) ==
    LET a == tree[n].attrib
        missing(text) ==
            IF param.required
            THEN IdFinding(n, n, "Missing Information",
                    "Required attribute " \o current_param \o text, "", ifcname, "",
                    link, docref)
            ELSE <<>>
    IN  IF param.ifcname \notin DOMAIN types THEN <<Raise(RaiseKeyError)>>
        ELSE IF /\ current_param \notin DOMAIN a
                /\ types[param.ifcname].type_definition = "Select"
             THEN SelectChild(n, ifcname, current_param, param, link, docref)
             ELSE IF current_param \notin DOMAIN a /\ param.is_list = "double"
                  THEN DoubleChild(n, ifcname, current_param, param, link, docref)
                  ELSE IF current_param \notin DOMAIN a THEN missing(" does not exist.")
                       ELSE IF a[current_param] = "" THEN missing(" has no value.")
                            ELSE RawAttribute(n, ifcname, current_param, param, link, docref)

\* lines 877-895: some element that refers to the entity stands for the
\* required child current_param
CalledAs(n, ifcname, current_param) ==
    LET referenced == FindAllRef(tree[n].attrib["id"])
        called_as == entities[ifcname].called_as
        role(name) == entities[ifcname].called_corresponding_entity[IndexOf(called_as, name)]
    IN  \E k \in 1..Len(referenced) :
            LET ref == referenced[k]
                parent == tree[ref].parent
            IN  IF tree[ref].tag \in Range(called_as)
                THEN role(tree[ref].tag) = current_param
                ELSE /\ tree[parent].tag \in Range(called_as)
                     /\ role(tree[parent].tag) = current_param

\* lines 872-903: the check of one declared parameter of kind "entity"
EntityParameter(n, ifcname, called_entity, current_param, param, link, docref) ==
    IF param.required /\ current_param \notin Range(AcceptedChildren(n, ifcname))
    THEN IF current_param = called_entity THEN <<>>
         ELSE IF "id" \notin DOMAIN tree[n].attrib THEN <<Raise(RaiseKeyError)>>
              ELSE IF CalledAs(n, ifcname, current_param) THEN <<>>
                   ELSE IdFinding(n, n, "Missing Information",
                           "Required child " \o current_param \o " does not exist.",
                           "", ifcname, "", link, docref)
    ELSE <<>>

\* lines 620-903: the checks of all declared parameters, in declaration order
Parameters(n, ifcname, called_entity, link, docref) ==
    LET e == entities[ifcname]
    IN  Concat([i \in 1..Len(e.parameters) |->
            LET current_param == e.parameter_name[i]
                param == e.parameters[i]
            IN  IF param.parameter_type = "type"
                THEN TypeParameter(n, ifcname, current_param,
                        e.parameters[IndexOf(e.parameter_name, current_param)], link, docref)
                ELSE EntityParameter(n, ifcname, called_entity, current_param, param,
                                     link, docref)])

\* lines 565-903: everything the full-validation branch tries to append
\* before the rules
StructuralChecks(n, ifcname, called_entity) ==
    IF ifcname \notin DOMAIN entities THEN <<Raise(RaiseKeyError)>>
    ELSE LET docref == entities[ifcname].reference
             link == Link(ifcname)
         IN  UnknownChildren(n, ifcname, link, docref)
                 \o DuplicateChildren(n, ifcname, link, docref)
                 \o UnknownAttributes(n, ifcname, link, docref)
                 \o Parameters(n, ifcname, called_entity, link, docref)

----------------------------------------------------------------------------
(* The formal propositions (validator.py:911-962).  The bodies of the      *)
(* rules of formal_propositions.py are not modelled one by one: what a     *)
(* rule does on an element is given with the document (beh).               *)

\* Rules.ref_check (formal_propositions.py:35-44): self.tree.find on the id
\* the entity refers to, 0 for None
ref_check(entity) ==
    LET hits == RefTargets(entity)
    IN  IF hits = <<>> THEN 0 ELSE FindAllId[hits[1]]

\* what is left at the source line of an element that is no longer part of
\* the tree
Detached == Elem("(detached)", NoAttrib, "None", "ok")

\* A rule that replaces a reference by its target before it looks at it, as
\* AllPointsSameDim does for the first point of a loop
\* (formal_propositions.py:811-816; on the child Kids here):
\*     polygon = entity.find("Polygon")
\*     if "ref" in polygon.attrib: polygon = self.ref_check(polygon)
\*     if "ref" in polygon[0].attrib: polygon[0] = self.ref_check(polygon[0])
\* The assignment to polygon[0] puts the target in the place of the
\* reference: lxml moves an element that is assigned into another one, and
\* the reference leaves the tree.  kind is "raise" where a step of the rule
\* raises, "keep" where the first element is no reference, "move" otherwise.
\* (In the documents here the reference is the only element of its list,
\* and its target stands neither above the list nor next in a running loop.)
Replacement(entity) ==
    LET found == Find(entity, "Kids")
        polygon == IF found # 0 /\ "ref" \in DOMAIN tree[found].attrib
                   THEN ref_check(found) ELSE found
        first == IF polygon # 0 /\ Children(polygon) # <<>> THEN Children(polygon)[1] ELSE 0
        target == IF first # 0 /\ "ref" \in DOMAIN tree[first].attrib
                  THEN ref_check(first) ELSE 0
    IN  [kind |-> IF first = 0 THEN "raise"
                  ELSE IF "ref" \notin DOMAIN tree[first].attrib THEN "keep"
                  ELSE IF target = 0 THEN "raise" ELSE "move",
         reference |-> first, target |-> target]

\* the tree once a rule has been invoked on the entity
TreeAfterRule(entity) ==
    LET r == Replacement(entity)
    IN  IF tree[entity].beh = "move" /\ r.kind = "move"
        THEN [tree EXCEPT ![r.target].parent = tree[r.reference].parent,
                          ![r.reference] = Detached]
        ELSE tree

\* the result of getattr(R, rule)(entity, ifctype[, called_entity]): "None",
\* a message, or "raise" for an exception
RuleResult(entity, rule, ifctype, called_entity) ==
    CASE tree[entity].beh = "viol" -> "The rule " \o rule \o " is violated."
      [] tree[entity].beh = "raise" -> "raise"
      [] tree[entity].beh = "move" ->
            IF Replacement(entity).kind = "raise" THEN "raise" ELSE "None"
      [] OTHER -> "None"

\* `for rule in rules_name` under `if rules_name[0] != ""`
RulesOf(ifcname) ==
    IF entities[ifcname].rules_name[1] # "" THEN entities[ifcname].rules_name ELSE <<>>

\* `for i in range(len(supertypes))` under `if supertypes[0] != ""`
SupertypesOf(ifcname) ==
    IF entities[ifcname].supertypes[1] # "" THEN entities[ifcname].supertypes ELSE <<>>

\* the invocations in another order: the rules of the supertypes, then the
\* rules of the type
InheritedFirst(ifcname) ==
    Concat([i \in 1..Len(SupertypesOf(ifcname)) |->
        LET supertype_ifc == SupertypesOf(ifcname)[i]
        IN  [k \in 1..Len(RulesOf(supertype_ifc)) |->
                [rule |-> RulesOf(supertype_ifc)[k], ifctype |-> supertype_ifc,
                 supertype |-> supertype_ifc]]])
    \o [k \in 1..Len(RulesOf(ifcname)) |->
        [rule |-> RulesOf(ifcname)[k], ifctype |-> ifcname, supertype |-> ""]]

\* the rule invocations of lines 911-962 in order: the rules of the type,
\* then the rules of each supertype; supertype is "" for a rule of the type
Agenda(ifcname) ==
    [k \in 1..Len(RulesOf(ifcname)) |->
        [rule |-> RulesOf(ifcname)[k], ifctype |-> ifcname, supertype |-> ""]]
    \o Concat([i \in 1..Len(SupertypesOf(ifcname)) |->
        LET supertype_ifc == SupertypesOf(ifcname)[i]
        IN  [k \in 1..Len(RulesOf(supertype_ifc)) |->
                [rule |-> RulesOf(supertype_ifc)[k], ifctype |-> supertype_ifc,
                 supertype |-> supertype_ifc]]])

\* the local variable link once the loop over the supertypes has ended
LinkAfterRules(ifcname) ==
    LET s == SupertypesOf(ifcname)
    IN  IF s = <<>> THEN Link(ifcname) ELSE Link(s[Len(s)])

\* the row of the except clause (lines 925-932, 953-962)
CodeException(n, ifcname, item, docref) ==
    IdFinding(n, n, "Code Exception (rule checking)",
        "Code Exception during rule checking.", item.rule, ifcname,
        IF item.supertype = "" THEN "" ELSE "SUPERTYPE: " \o item.supertype,
        Link(item.ifctype), docref)

\* what one pass of the try statement around a rule tries to append: an
\* exception in the try block, also one raised while the violation row is
\* built, is handled by the except clause
RuleFindings(n, ifcname, called_entity, item) ==
    LET docref == entities[ifcname].reference
        rule_result == RuleResult(n, item.rule, item.ifctype, called_entity)
        row == IdFinding(n, n,
                   IF item.supertype = "" THEN "Rule violation" ELSE "Parent Rule violation",
                   rule_result, item.rule, ifcname,
                   IF item.supertype = "" THEN "" ELSE "SUPERTYPE: " \o item.supertype,
                   Link(item.ifctype), docref)
    IN  IF rule_result = "None" THEN <<>>
        ELSE IF rule_result = "raise" \/ Raised(row) # "none"
             THEN CodeException(n, ifcname, item, docref)
             ELSE row

----------------------------------------------------------------------------
(* The loop over the children (validator.py:971-1171).  One activation of  *)
(* check_children is a frame: its arguments, its local variables ifcname,  *)
(* called_entity and link (all three are reassigned on the way), and its   *)
(* position.                                                               *)

Frame(node, ifcname, called_entity, site) ==
    [node |-> node,                   \* current_entity
     ifcname |-> ifcname,             \* the local variable ifcname
     current_ifc |-> ifcname,         \* ifcname as passed in (line 972)
     called_entity |-> called_entity, \* "None" for None
     link |-> "",
     site |-> site,                   \* the call that made it: "top", "list", "select",
                                      \* "plain", "multi" or "single"
     pc |-> "enter",                  \* "enter", "rules", "children", "elements", "return"
     k |-> 1,                         \* next entry of the agenda of rules
     ci |-> 1,                        \* next child of `for child in current_entity`
     cont |-> 0,                      \* the child whose elements are looped over
     ei |-> 1,                        \* next element of `for chi in child`
     accepted |-> <<>>]               \* current_entity_children

\* the outcome of the part of one pass of the loop body that precedes the
\* recursive call or the loop over the elements
Slot(kind, ifcname, called_entity, emits) ==
    [kind |-> kind, ifcname |-> ifcname, called_entity |-> called_entity, emits |-> emits]

\* lines 1004-1045: the list violation of a list-valued child with len elements
ChildListViolation(param, len) ==
    CASE param.is_list = "single" ->
            IF len < IntOf(param.list_min) THEN "The number of child elements is too small."
            ELSE IF param.list_max # "?" /\ len > IntOf(param.list_max)
                 THEN "The number of child elements is too big."
                 ELSE "None"
      [] param.is_list = "double" ->
            IF len < IntOf(param.list1_min) * IntOf(param.list2_min)
            THEN "The number of child elements is too small."
            ELSE IF /\ param.list2_max # "?"
                    /\ IntOf(param.list2_min) = IntOf(param.list2_max)
                    /\ len % IntOf(param.list2_min) # 0
                 THEN "The number of child elements is not correct (double list error)."
                 ELSE IF /\ param.list1_max # "?" /\ param.list2_max # "?"
                         /\ len > IntOf(param.list1_max) * IntOf(param.list2_max)
                      THEN "The number of child elements is too big."
                      ELSE "None"
      [] OTHER -> "None"

\* lines 979-1045, 1066-1067: a child whose tag is a parameter name of the
\* type the local ifcname names
ParameterSlot(f, child) ==
    LET docref == entities[f.current_ifc].reference
        position_of_param == IndexOf(entities[f.ifcname].parameter_name, tree[child].tag)
        declared == entities[f.ifcname].parameters[position_of_param].ifcname
        params == entities[f.current_ifc].parameters
        param == params[position_of_param]
        a == tree[child].attrib
        sub_ifcname == IF TypeAttr \in DOMAIN a THEN a[TypeAttr]
                       ELSE IF StartsWithIfc(tree[child].tag) THEN tree[child].tag ELSE "no"
        differs == sub_ifcname # "no" /\ sub_ifcname # declared
        covariant == declared \in Range(entities[sub_ifcname].supertypes)
        ifcname == IF differs /\ covariant THEN sub_ifcname ELSE declared
        entity == IF differs /\ ~covariant
                  THEN IdFinding(f.node, f.node, "Entity", "Entity is using the wrong type.",
                                 "", declared, "", f.link, docref)
                  ELSE <<>>
        list_viol_msg == ChildListViolation(param, Len(Children(child)))
        raise(kind, emits) == Slot("raise", f.ifcname, f.called_entity, emits \o <<Raise(kind)>>)
    IN  IF position_of_param > Len(entities[f.ifcname].parameters) THEN raise(RaiseIndexError, <<>>)
        ELSE IF position_of_param > Len(params) THEN raise(RaiseIndexError, <<>>)
        ELSE IF param.ifcname # declared THEN raise(RaiseKeyError, <<>>)
        ELSE IF differs /\ sub_ifcname \notin DOMAIN entities THEN raise(RaiseKeyError, <<>>)
        ELSE IF param.is_list # "no"
             THEN IF ifcname # param.ifcname THEN raise(RaiseKeyError, entity)
                  ELSE Slot("list", ifcname, f.called_entity,
                            entity \o (IF list_viol_msg = "None" THEN <<>>
                                       ELSE IdFinding(f.node, f.node, "List size violation",
                                                list_viol_msg, "", ifcname, "", f.link, docref)))
             ELSE IF param.parameter_type = "type"
                  THEN IF Children(child) = <<>> THEN raise(RaiseIndexError, entity)
                       ELSE Slot("select", tree[Children(child)[1]].tag, f.called_entity, entity)
                  ELSE Slot("plain", ifcname, f.called_entity, entity)

\* lines 1102-1138: a child whose tag is a calling parameter name of the
\* type the local ifcname names
CallingSlot(f, child) ==
    LET docref == entities[f.current_ifc].reference
        position_of_param ==
            IndexOf(entities[f.ifcname].calling_parameter_name, tree[child].tag)
        ifcname2 == f.ifcname
        declared == entities[ifcname2].calling_parameters[position_of_param].ifcname
        params == entities[f.current_ifc].calling_parameters
        param == params[position_of_param]
        called_entity == entities[ifcname2].calling_parameters[position_of_param]
                             .corresponding_entity
        len == Len(Children(child))
        a == tree[child].attrib
        list_viol_msg ==
            IF len < IntOf(param.list_min) THEN "The number of child elements is too small."
            ELSE IF param.list_max = "1"
                 THEN (IF "id" \notin DOMAIN a /\ "ref" \notin DOMAIN a /\ len > 1
                       THEN "The number of child elements is too big." ELSE "None")
                 ELSE IF param.list_max # "?" /\ len > IntOf(param.list_max)
                      THEN "The number of child elements is too big."
                      ELSE "None"
        emits == IF list_viol_msg = "None" THEN <<>>
                 ELSE IdFinding(child, f.node, "List size violation", list_viol_msg, "",
                                declared, "", f.link, docref)
        raise(kind) == Slot("raise", f.ifcname, f.called_entity, <<Raise(kind)>>)
    IN  IF position_of_param > Len(entities[ifcname2].calling_parameters)
        THEN raise(RaiseIndexError)
        ELSE IF position_of_param > Len(params) THEN raise(RaiseIndexError)
        ELSE IF param.ifcname # declared THEN raise(RaiseKeyError)
        ELSE Slot(IF param.list_max # "1" THEN "multi" ELSE "single",
                  declared, called_entity, emits)

\* lines 973-1171: one pass of `for child in current_entity` up to the
\* recursive call or the loop over the elements
ChildSlot(f, child) ==
    IF tree[child].tag \notin Range(f.accepted)
    THEN Slot("skip", f.ifcname, f.called_entity, <<>>)
    ELSE IF f.ifcname \notin DOMAIN entities
         THEN Slot("raise", f.ifcname, f.called_entity, <<Raise(RaiseKeyError)>>)
         ELSE IF tree[child].tag \in Range(entities[f.ifcname].parameter_name)
              THEN ParameterSlot(f, child)
              ELSE IF tree[child].tag \in Range(entities[f.ifcname].calling_parameter_name)
                   THEN CallingSlot(f, child)
                   ELSE Slot("skip", f.ifcname, f.called_entity, <<>>)

\* lines 1060-1063 and their copies after every recursive call: the context
\* stack and the local ifcname once the call is over
PopList(list) == IF Len(list) >= 1 THEN SubSeq(list, 1, Len(list) - 1) ELSE list

RestoredName(list, ifcname) ==
    IF Len(list) >= 1 /\ Len(PopList(list)) >= 1
    THEN PopList(list)[Len(PopList(list))]
    ELSE ifcname

----------------------------------------------------------------------------
(* The program: ifchecker_main.py parses the document, runs unique_ids and *)
(* calls check_children on every child of the root but the first.          *)

TopFrame == stack[Len(stack)]

SetTop(f) == [stack EXCEPT ![Len(stack)] = f]

\* an entry of the log of visits
Visit(node, ifcname, called_entity, site, list) ==
    [node |-> node, ifcname |-> ifcname, called_entity |-> called_entity, site |-> site,
     depth |-> Len(stack) + 1, ifc_list |-> list]

\* the call check_children(node, ifcname, ..., ifc_list[, called_entity]) made
\* from the frame caller (the top of the stack), with the context stack list
Call(caller, node, ifcname, called_entity, site, list) ==
    /\ stack' = Append(SetTop(caller), Frame(node, ifcname, called_entity, site))
    /\ visits' = Append(visits, Visit(node, ifcname, called_entity, site, list))
    /\ ifc_list' = list

\* the frame of the caller once a call made from it is over (normally or
\* in its except clause): ifcname restored from the context stack, and the
\* loop it is in moved on
AfterCall(p) ==
    LET q == [p EXCEPT !.ifcname = RestoredName(ifc_list, p.ifcname)]
    IN  IF p.pc = "elements" THEN [q EXCEPT !.ei = p.ei + 1] ELSE [q EXCEPT !.ci = p.ci + 1]

Init ==
    /\ tree = EmptyDoc
    /\ pc = "parse"
    /\ top = 1
    /\ stack = <<>>
    /\ ifc_list = <<>>
    /\ findings = <<>>
    /\ visits = <<>>
    /\ rulelog = <<>>
    /\ exc = "none"
    /\ arg = "none"
    /\ ret = "none"

\* etree.parse reads one more element (ifchecker_main.py:29-37)
Parse ==
    /\ pc = "parse"
    /\ Len(tree) < MaxNodes + 2
    /\ tree' \in Extend(tree, "walk")
    /\ UNCHANGED <<pc, top, stack, ifc_list, findings, visits, rulelog, exc, arg, ret>>

\* Val.unique_ids() (ifchecker_main.py:53); list(set(double_ids)) comes out
\* in some order
UniqueIds ==
    /\ pc = "parse"
    /\ Len(tree) > 2
    /\ \E double_ids \in Perms(DoubleIds) :
           findings' = findings \o unique_ids(double_ids)
    /\ pc' = "loop"
    /\ UNCHANGED <<tree, top, stack, ifc_list, visits, rulelog, exc, arg, ret>>

\* the main loop skips the first child of the root (`if i > 0`)
SkipFirst ==
    /\ pc = "loop" /\ stack = <<>> /\ top = 1
    /\ top' = top + 1
    /\ UNCHANGED <<tree, pc, stack, ifc_list, findings, visits, rulelog, exc, arg, ret>>

\* Val.check_children(current_entity, current_entity.tag, [], [], [], [],
\* [current_entity.tag]) (ifchecker_main.py:56-57)
CallTop ==
    /\ pc = "loop" /\ stack = <<>> /\ top > 1 /\ top <= Len(Children(1))
    /\ LET current_entity == Children(1)[top]
           tag == tree[current_entity].tag
       IN  /\ stack' = <<Frame(current_entity, tag, "None", "top")>>
           /\ visits' = Append(visits, Visit(current_entity, tag, "None", "top", <<tag>>))
           /\ ifc_list' = <<tag>>
    /\ UNCHANGED <<tree, pc, top, findings, rulelog, exc, arg, ret>>

\* the main loop is over: Val.print_result
Finish ==
    /\ pc = "loop" /\ stack = <<>> /\ top > Len(Children(1))
    /\ pc' = "done"
    /\ UNCHANGED <<tree, top, stack, ifc_list, findings, visits, rulelog, exc, arg, ret>>

\* lines 536-551 with the second test no longer an elif of the first: a
\* reference that is not found gets both rows
ReferenceFindingsBoth(n) ==
    LET r == reference_checker(n)
        ref == tree[n].attrib["ref"]
    IN  (IF ~r.found_ref
         THEN <<Finding(<<n>>, "referenced id: " \o ref, "Reference",
                        "Referenced id can not be found. ID: " \o ref, "", "", "", "", "")>>
         ELSE <<>>)
        \o (IF r.is_equal # "True"
            THEN <<Finding(<<n>>, "referenced id: " \o ref, "Reference",
                           "The reference type is not matching. Referenced ID: " \o ref,
                           "", "", "", "", "")>>
            ELSE <<>>)

\* the row of lines 536-551 for a reference, if any
ReferenceFindings(n) ==
    LET r == reference_checker(n)
        ref == tree[n].attrib["ref"]
    IN  IF ~r.found_ref
        THEN <<Finding(<<n>>, "referenced id: " \o ref, "Reference",
                       "Referenced id can not be found. ID: " \o ref, "", "", "", "", "")>>
        ELSE IF r.is_equal # "True"
             THEN <<Finding(<<n>>, "referenced id: " \o ref, "Reference",
                            "The reference type is not matching. Referenced ID: " \o ref,
                            "", "", "", "", "")>>
             ELSE <<>>

\* lines 536-551 with a reference to a reference followed: the activation
\* goes on with the target in place of the reference
ReferenceBranchFollows ==
    /\ stack # <<>> /\ exc = "none" /\ TopFrame.pc = "enter"
    /\ "ref" \in DOMAIN tree[TopFrame.node].attrib
    /\ LET target == ref_check(TopFrame.node)
       IN  IF target # 0 /\ "ref" \in DOMAIN tree[target].attrib
           THEN /\ stack' = SetTop([TopFrame EXCEPT !.node = target])
                /\ findings' = findings
           ELSE /\ findings' = findings \o ReferenceFindings(TopFrame.node)
                /\ stack' = SetTop([TopFrame EXCEPT !.pc = "return"])
    /\ UNCHANGED <<tree, pc, top, ifc_list, visits, rulelog, exc, arg, ret>>

\* check_children on an element that carries ref (lines 536-551)
ReferenceBranch ==
    /\ stack # <<>> /\ exc = "none" /\ TopFrame.pc = "enter"
    /\ "ref" \in DOMAIN tree[TopFrame.node].attrib
    /\ findings' = findings \o ReferenceFindings(TopFrame.node)
    /\ stack' = SetTop([TopFrame EXCEPT !.pc = "return"])
    /\ UNCHANGED <<tree, pc, top, ifc_list, visits, rulelog, exc, arg, ret>>

\* check_children under a name that ends in "-wrapper" (lines 559-560)
WrapperBranch ==
    /\ stack # <<>> /\ exc = "none" /\ TopFrame.pc = "enter"
    /\ "ref" \notin DOMAIN tree[TopFrame.node].attrib
    /\ IsWrapper(TopFrame.ifcname)
    /\ stack' = SetTop([TopFrame EXCEPT !.pc = "return"])
    /\ UNCHANGED <<tree, pc, top, ifc_list, findings, visits, rulelog, exc, arg, ret>>

\* the rows a step tried to append are recorded up to the first exception;
\* without one the activation goes on as the frame then
Outcome(emits, then) ==
    /\ findings' = findings \o Cut(emits)
    /\ exc' = Raised(emits)
    /\ stack' = IF Raised(emits) # "none" THEN stack ELSE SetTop(then)

\* the full-validation branch up to the rules (lines 565-903)
FullBranch ==
    /\ stack # <<>> /\ exc = "none" /\ TopFrame.pc = "enter"
    /\ "ref" \notin DOMAIN tree[TopFrame.node].attrib
    /\ ~IsWrapper(TopFrame.ifcname)
    /\ Outcome(StructuralChecks(TopFrame.node, TopFrame.ifcname, TopFrame.called_entity),
               [TopFrame EXCEPT !.pc = "rules", !.link = Link(TopFrame.ifcname),
                                !.accepted = AcceptedChildren(TopFrame.node, TopFrame.ifcname)])
    /\ UNCHANGED <<tree, pc, top, ifc_list, visits, rulelog, arg, ret>>

\* one rule of the type or of a supertype is invoked (lines 912-932, 940-962)
RunRule ==
    /\ stack # <<>> /\ exc = "none" /\ TopFrame.pc = "rules"
    /\ TopFrame.k <= Len(Agenda(TopFrame.ifcname))
    /\ LET f == TopFrame
           item == Agenda(f.ifcname)[f.k]
       IN  /\ rulelog' = Append(rulelog, [node |-> f.node, rule |-> item.rule,
                                          ifctype |-> item.ifctype,
                                          called_entity |-> f.called_entity])
           /\ Outcome(RuleFindings(f.node, f.ifcname, f.called_entity, item),
                      [f EXCEPT !.k = f.k + 1, !.link = Link(item.ifctype)])
           /\ tree' = TreeAfterRule(f.node)
    /\ UNCHANGED <<pc, top, ifc_list, visits, arg, ret>>

\* the rules are over: `if len(current_entity_children) != 0` (line 971)
BeginChildren ==
    /\ stack # <<>> /\ exc = "none" /\ TopFrame.pc = "rules"
    /\ TopFrame.k > Len(Agenda(TopFrame.ifcname))
    /\ stack' = SetTop([TopFrame EXCEPT
                           !.link = LinkAfterRules(TopFrame.ifcname),
                           !.pc = IF TopFrame.accepted = <<>> THEN "return" ELSE "children"])
    /\ UNCHANGED <<tree, pc, top, ifc_list, findings, visits, rulelog, exc, arg, ret>>

\* one pass of `for child in current_entity` (lines 973-1171), up to the
\* recursive call it makes or the first pass of its loop over the elements
ChildStep ==
    /\ stack # <<>> /\ exc = "none" /\ TopFrame.pc = "children"
    /\ TopFrame.ci <= Len(Children(TopFrame.node))
    /\ LET f == TopFrame
           child == Children(f.node)[f.ci]
           s == ChildSlot(f, child)
           g == [f EXCEPT !.ifcname = s.ifcname, !.called_entity = s.called_entity]
       IN  /\ findings' = findings \o Cut(s.emits)
           /\ exc' = Raised(s.emits)
           /\ CASE Raised(s.emits) # "none" ->
                     /\ stack' = stack
                     /\ UNCHANGED <<visits, ifc_list>>
                [] Raised(s.emits) = "none" /\ s.kind = "skip" ->
                     /\ stack' = SetTop([f EXCEPT !.ci = f.ci + 1])
                     /\ UNCHANGED <<visits, ifc_list>>
                [] Raised(s.emits) = "none" /\ s.kind \in {"list", "multi"} ->
                     /\ stack' = SetTop([g EXCEPT !.pc = "elements", !.cont = child, !.ei = 1])
                     /\ UNCHANGED <<visits, ifc_list>>
                [] Raised(s.emits) = "none" /\ s.kind = "select" ->
                     Call(g, Children(child)[1], s.ifcname, "None", "select",
                          Append(ifc_list, s.ifcname))
                [] Raised(s.emits) = "none" /\ s.kind = "plain" ->
                     Call(g, child, s.ifcname, "None", "plain", Append(ifc_list, s.ifcname))
                [] OTHER -> \* "single"
                     Call(g, child, s.ifcname, s.called_entity, "single",
                          Append(ifc_list, s.ifcname))
    /\ UNCHANGED <<tree, pc, top, rulelog, arg, ret>>

\* one pass of `for chi in child` (lines 1047-1063, 1141-1156), or its end
ElementStep ==
    /\ stack # <<>> /\ exc = "none" /\ TopFrame.pc = "elements"
    /\ LET f == TopFrame
           elems == Children(f.cont)
       IN  IF f.ei > Len(elems)
           THEN /\ stack' = SetTop([f EXCEPT !.pc = "children", !.ci = f.ci + 1])
                /\ UNCHANGED <<visits, ifc_list>>
           ELSE LET chi == elems[f.ei]
                    calling == tree[f.cont].tag
                                   \notin Range(entities[f.current_ifc].parameter_name)
                IN  Call([f EXCEPT !.ifcname = tree[chi].tag], chi, tree[chi].tag,
                         IF calling THEN f.called_entity ELSE "None",
                         IF calling THEN "multi" ELSE "list",
                         Append(ifc_list, tree[chi].tag))
    /\ UNCHANGED <<tree, pc, top, findings, rulelog, exc, arg, ret>>

\* the loop over the children is over: check_children returns, and the
\* caller pops the context stack (lines 1060-1063 and their copies)
Return ==
    /\ stack # <<>> /\ exc = "none"
    /\ \/ TopFrame.pc = "return"
       \/ TopFrame.pc = "children" /\ TopFrame.ci > Len(Children(TopFrame.node))
    /\ IF Len(stack) = 1
       THEN /\ stack' = <<>>
            /\ top' = top + 1
            /\ ifc_list' = <<>>
       ELSE /\ stack' = [SubSeq(stack, 1, Len(stack) - 1) EXCEPT
                            ![Len(stack) - 1] = AfterCall(stack[Len(stack) - 1])]
            /\ ifc_list' = PopList(ifc_list)
            /\ top' = top
    /\ UNCHANGED <<tree, pc, findings, visits, rulelog, exc, arg, ret>>

\* the row of the except clause around a recursive call (lines 1073-1078,
\* 1147-1152, 1162-1167), for the frame p of the caller and the callee f
HandlerFindings(p, f) ==
    CASE f.site = "select" ->
            IdFinding(p.node, p.node, "An unexpected Error occurred (2)", exc, "",
                      p.ifcname, "", "", "")
      [] f.site = "multi" ->
            IdFinding(f.node, f.node, "An unexpected Error occurred (4)", exc, "",
                      p.ifcname, "", "", "")
      [] OTHER ->
            IdFinding(f.node, f.node, "An unexpected Error occurred (5)", exc, "",
                      p.ifcname, "", "", "")

\* an exception leaves the innermost activation: the caller handles it if
\* the call stands in a try statement, and the main program does not
Unwind ==
    /\ stack # <<>> /\ exc # "none"
    /\ LET f == TopFrame
           rest == SubSeq(stack, 1, Len(stack) - 1)
       IN  CASE f.site = "top" ->
                  /\ stack' = <<>>
                  /\ pc' = "crashed"
                  /\ UNCHANGED <<exc, findings, ifc_list>>
             [] f.site \in {"list", "plain"} ->
                  /\ stack' = rest
                  /\ UNCHANGED <<pc, exc, findings, ifc_list>>
             [] OTHER ->
                  LET p == rest[Len(rest)]
                      emits == HandlerFindings(p, f)
                  IN  /\ findings' = findings \o Cut(emits)
                      /\ exc' = Raised(emits)
                      /\ pc' = pc
                      /\ IF Raised(emits) # "none"
                         THEN /\ stack' = rest
                              /\ ifc_list' = ifc_list
                         ELSE /\ stack' = [rest EXCEPT ![Len(rest)] = AfterCall(p)]
                              /\ ifc_list' = PopList(ifc_list)
    /\ UNCHANGED <<tree, top, visits, rulelog, arg, ret>>

Next ==
    \/ Parse
    \/ UniqueIds
    \/ SkipFirst
    \/ CallTop
    \/ Finish
    \/ ReferenceBranch
    \/ WrapperBranch
    \/ FullBranch
    \/ RunRule
    \/ BeginChildren
    \/ ChildStep
    \/ ElementStep
    \/ Return
    \/ Unwind

Spec == Init /\ [][Next]_vars

----------------------------------------------------------------------------
(* Properties of the validation pass.                                      *)

\* the elements check_children has been called on
VisitedNodes == {visits[i].node : i \in 1..Len(visits)}

\* the number of calls of check_children on element n
VisitCount(n) == Cardinality({i \in 1..Len(visits) : visits[i].node = n})

\* a call that takes the full-validation branch for a type of the dictionary
FullVisit(v) ==
    /\ "ref" \notin DOMAIN tree[v.node].attrib
    /\ ~IsWrapper(v.ifcname)
    /\ v.ifcname \in DOMAIN entities

\* the elements a node of type ifcname hands to check_children for its
\* accepted child c, by the kind of slot the dictionary declares for c: the
\* elements of a list slot or of a calling slot with several elements, the
\* first element of a select slot, the child itself otherwise
Subjects(ifcname, c) ==
    LET e == entities[ifcname]
        tag == tree[c].tag
    IN  IF tag \in Range(e.parameter_name)
        THEN LET param == e.parameters[IndexOf(e.parameter_name, tag)]
             IN  IF param.is_list # "no" THEN Range(Children(c))
                 ELSE IF param.parameter_type = "type"
                      THEN (IF Children(c) = <<>> THEN {} ELSE {Children(c)[1]})
                      ELSE {c}
        ELSE IF tag \in Range(e.calling_parameter_name)
             THEN LET param == e.calling_parameters[IndexOf(e.calling_parameter_name, tag)]
                  IN  IF param.list_max # "1" THEN Range(Children(c)) ELSE {c}
             ELSE {}

\* all elements the node n of type ifcname hands to check_children
Expected(n, ifcname) ==
    UNION {Subjects(ifcname, Children(n)[k]) : k \in 1..Len(Children(n))}

\* the kinds of finding of the structural checks
StructuralKinds ==
    {"Unknown child", "Unknown attribute", "Missing Information", "List size violation",
     "Type", "Entity"}

\* the top activation is about to invoke a rule that raises
RuleRaises ==
    /\ stack # <<>> /\ exc = "none" /\ TopFrame.pc = "rules"
    /\ TopFrame.k <= Len(Agenda(TopFrame.ifcname))
    /\ tree[TopFrame.node].beh = "raise"

\* C1 (rule failure isolation): whenever a rule invoked on a node raises,
\* exactly one "Code Exception (rule checking)" finding naming that rule is
\* appended, no exception leaves the try statement, and the activation goes
\* on with the next rule of its agenda (after the last one, with the children)
C1_RuleFailureIsolated ==
    [][RuleRaises =>
          /\ Len(findings') = Len(findings) + 1
          /\ findings'[Len(findings')].error_type = "Code Exception (rule checking)"
          /\ findings'[Len(findings')].rule_name = Agenda(TopFrame.ifcname)[TopFrame.k].rule
          /\ exc' = "none"
          /\ Len(stack') = Len(stack)
          /\ stack'[Len(stack')].pc = "rules"
          /\ stack'[Len(stack')].k = TopFrame.k + 1]_vars

\* C2 (exhaustive, not fail-fast): once the pass is over, every node that
\* took the full-validation branch and has a structural finding recorded for
\* it has had check_children called on the elements of every accepted child
C2_Exhaustive ==
    pc = "done" =>
        \A i \in 1..Len(visits) :
            (/\ FullVisit(visits[i])
             /\ \E j \in 1..Len(findings) :
                    /\ findings[j].line = <<visits[i].node>>
                    /\ findings[j].error_type \in StructuralKinds)
            => Expected(visits[i].node, visits[i].ifcname) \subseteq VisitedNodes

\* a call of check_children on a node that is neither a reference nor a
\* wrapper and whose type name has no entry in the entity dictionary
SchemaGap(v) ==
    /\ "ref" \notin DOMAIN tree[v.node].attrib
    /\ ~IsWrapper(v.ifcname)
    /\ v.ifcname \notin DOMAIN entities

\* C3 (schema gap is a finding, not a crash): when check_children has been
\* called on a non-reference, non-wrapper node whose type name has no entry
\* in the entity dictionary, no exception leaves the outermost call, and
\* once the pass is over a finding on the line of that node is recorded
C3_SchemaGapIsFinding ==
    \A i \in 1..Len(visits) :
        SchemaGap(visits[i]) =>
            /\ pc # "crashed"
            /\ pc = "done" => \E j \in 1..Len(findings) :
                                  findings[j].line = <<visits[i].node>>

\* a reference whose ref value is the id of no element of findall(".//*[@id]")
Dangling(n) ==
    /\ "ref" \in DOMAIN tree[n].attrib
    /\ \A m \in 1..Len(tree) :
           "id" \in DOMAIN tree[m].attrib => tree[m].attrib["id"] # tree[n].attrib["ref"]

\* the findings that report that a referenced id can not be found
NotFoundFindings ==
    {j \in 1..Len(findings) :
        /\ findings[j].error_type = "Reference"
        /\ \/ findings[j].error_message = "Referenced id can not be found."
           \/ \E n \in 1..Len(tree) :
                  /\ "ref" \in DOMAIN tree[n].attrib
                  /\ findings[j].error_message
                         = "Referenced id can not be found. ID: " \o tree[n].attrib["ref"]}

\* C6 (a dangling reference is reported once): once the pass is over, there
\* are as many "Referenced id can not be found" findings as dangling
\* reference nodes check_children was called on
C6_DanglingReportedOnce ==
    pc = "done" =>
        Cardinality(NotFoundFindings)
            = Cardinality({n \in VisitedNodes : Dangling(n)})

\* the top activation is a call of check_children on a node that carries ref
OnReference ==
    /\ stack # <<>> /\ exc = "none" /\ TopFrame.pc = "enter"
    /\ "ref" \in DOMAIN tree[TopFrame.node].attrib

\* C7 (the reference branch stops): a call of check_children on a node that
\* carries ref appends at most one finding, of kind "Reference", invokes no
\* rule, calls check_children on no element, raises nothing and returns,
\* whatever the type name it was called with
C7_ReferenceBranchStops ==
    [][OnReference =>
          /\ \/ findings' = findings
             \/ /\ Len(findings') = Len(findings) + 1
                /\ SubSeq(findings', 1, Len(findings)) = findings
                /\ findings'[Len(findings')].error_type = "Reference"
                /\ findings'[Len(findings')].line = <<TopFrame.node>>
          /\ rulelog' = rulelog
          /\ visits' = visits
          /\ exc' = "none"
          /\ stack' = SetTop([TopFrame EXCEPT !.pc = "return"])]_vars

\* the call on a reference whose type name has no entry in the dictionary
\* has appended its Reference finding and is about to return
C7_Witness ==
    /\ stack # <<>> /\ TopFrame.pc = "return"
    /\ "ref" \in DOMAIN tree[TopFrame.node].attrib
    /\ TopFrame.ifcname \notin DOMAIN entities
    /\ findings # <<>>
    /\ findings[Len(findings)].error_type = "Reference"
    /\ findings[Len(findings)].line = <<TopFrame.node>>

\* C8 (completeness of traversal): once the pass is over, check_children
\* has been called exactly once on every top-level node after the header and
\* on every element a fully validated node is to hand on, in particular on
\* every element of a list slot and of a calling slot
C8_TraversalComplete ==
    pc = "done" =>
        /\ \A k \in 2..Len(Children(1)) : VisitCount(Children(1)[k]) = 1
        /\ \A i \in 1..Len(visits) :
               FullVisit(visits[i]) =>
                   \A n \in Expected(visits[i].node, visits[i].ifcname) : VisitCount(n) = 1

\* the ids the elements of findall(".//*[@id]") carry
CarriedIds == {tree[FindAllId[k]].attrib["id"] : k \in 1..Len(FindAllId)}

\* the source lines of the elements of findall(".//*[@id]") that carry uid
Carriers(uid) ==
    {FindAllId[k] : k \in {j \in 1..Len(FindAllId) : tree[FindAllId[j]].attrib["id"] = uid}}

\* the ID findings about uid
IdFindings(uid) ==
    {j \in 1..Len(findings) : findings[j].error_type = "ID" /\ findings[j].id = uid}

\* C9 (duplicate-id detection): after unique_ids there is exactly one ID
\* finding for every id carried by two or more nodes, listing the lines of
\* all of them, and none for an id carried by exactly one node
C9_DuplicateIds ==
    pc # "parse" =>
        \A uid \in CarriedIds :
            IF Cardinality(Carriers(uid)) >= 2
            THEN /\ Cardinality(IdFindings(uid)) = 1
                 /\ \A j \in IdFindings(uid) : Range(findings[j].line) = Carriers(uid)
            ELSE IdFindings(uid) = {}

----------------------------------------------------------------------------
(* reference_checker on its own: documents of elements that carry ids and  *)
(* refs, with or without an id on the root element, and one call of        *)
(* reference_checker on an element that carries ref.                       *)

\* the root element with an id of its own
RootWithId == [RootElem EXCEPT !.attrib = [id |-> "r"]]

InitRef ==
    /\ tree \in {EmptyDoc, <<RootWithId, HeaderElem>>}
    /\ pc = "parse"
    /\ top = 1
    /\ stack = <<>>
    /\ ifc_list = <<>>
    /\ findings = <<>>
    /\ visits = <<>>
    /\ rulelog = <<>>
    /\ exc = "none"
    /\ arg = 0
    /\ ret = [found_ref |-> FALSE, is_equal |-> "None"]

\* etree.parse reads one more element
ParseRef ==
    /\ pc = "parse"
    /\ Len(tree) < MaxRefNodes + 2
    /\ tree' \in Extend(tree, "ref")
    /\ UNCHANGED <<pc, top, stack, ifc_list, findings, visits, rulelog, exc, arg, ret>>

\* found_ref, is_equal = self.reference_checker(entity) for an element that
\* carries ref
CheckReference ==
    /\ pc = "parse"
    /\ \E entity \in 3..Len(tree) :
           /\ "ref" \in DOMAIN tree[entity].attrib
           /\ arg' = entity
           /\ ret' = reference_checker(entity)
    /\ pc' = "resolved"
    /\ UNCHANGED <<tree, top, stack, ifc_list, findings, visits, rulelog, exc>>

NextRef ==
    \/ ParseRef
    \/ CheckReference

SpecRef == InitRef /\ [][NextRef]_vars

\* the type an element stands for: its type-discriminator attribute, else
\* its tag
TypeOf(n) ==
    IF TypeAttr \in DOMAIN tree[n].attrib THEN tree[n].attrib[TypeAttr] ELSE tree[n].tag

\* expected is actual or one of its supertypes
Compatible(expected, actual) ==
    \/ expected = actual
    \/ actual \in DOMAIN entities /\ expected \in Range(entities[actual].supertypes)

\* C4 (reference type compatibility is covariant): when the target of a
\* reference exists, reference_checker returns is_equal = True iff the type
\* the reference expects is the type of the target or one of its supertypes
C4_ReferenceCovariant ==
    (pc = "resolved" /\ ret.found_ref) =>
        (ret.is_equal = "True"
            <=> Compatible(TypeOf(arg), TypeOf(FindAllId[RefTargets(arg)[1]])))

\* C5 (reference existence): reference_checker returns found_ref = True iff
\* at least one node anywhere in the tree carries the id the reference names
C5_ReferenceExists ==
    pc = "resolved" =>
        (ret.found_ref
            <=> \E m \in 1..Len(tree) :
                    /\ "id" \in DOMAIN tree[m].attrib
                    /\ tree[m].attrib["id"] = tree[arg].attrib["ref"])

----------------------------------------------------------------------------
(* typechecker on its own: one call on a value, a type name of the type    *)
(* dictionary and the is_list its callers pass.                            *)

\* the values of the universe the calls are made with
Values ==
    {"", "x", "0", "1", "2", "-1", "0.5", "1.5", "-0.5", "inf", "nan", "1 2", "10 20 30",
     "-10 20 30", "10 20 x", "1 2 3 4", "10 -20 30 4", "10 60 30", "TRUE", "2020-01-31",
     LongText}

InitType ==
    /\ tree = EmptyDoc
    /\ pc = "type"
    /\ top = 1
    /\ stack = <<>>
    /\ ifc_list = <<>>
    /\ findings = <<>>
    /\ visits = <<>>
    /\ rulelog = <<>>
    /\ exc = "none"
    /\ arg \in [value : Values, typename : TypeNames, is_list : {"no", "single", "False"}]
    /\ ret = "none"

\* correctness = self.typechecker(value, typename, is_list)
Typecheck ==
    /\ pc = "type"
    /\ ret' = typechecker(arg.value, arg.typename, arg.is_list)
    /\ pc' = "typed"
    /\ UNCHANGED <<tree, top, stack, ifc_list, findings, visits, rulelog, exc, arg>>

\* current_val_correctness = self.typechecker_sequence(value, typename), the
\* call typechecker makes for a type of kind Representation/Sequence
\* (validator.py:409-410), on its own
TypecheckSequence ==
    /\ pc = "type"
    /\ types[arg.typename].type_definition = "Representation/Sequence"
    /\ ret' = typechecker_sequence(arg.value, arg.typename)
    /\ pc' = "sequenced"
    /\ UNCHANGED <<tree, top, stack, ifc_list, findings, visits, rulelog, exc, arg>>

NextType ==
    \/ Typecheck
    \/ TypecheckSequence

SpecType == InitType /\ [][NextType]_vars

\* the names typechecker_type, typechecker_other and typechecker_sequence
\* have a branch for
RecognisedNames ==
    {"IfcBinary", "IfcBoolean", "IfcGloballyUniqueId", "IfcIdentifier", "IfcInteger",
     "IfcLabel", "IfcLogical", "IfcNumericMeasure", "IfcParameterValue",
     "IfcPositiveInteger", "IfcReal", "IfcText",
     "IfcDate", "IfcDateTime", "IfcDuration", "IfcTime", "IfcTimeStamp",
     "IfcURIReference", "IfcPresentableText",
     "IfcArcIndex", "IfcLineIndex", "IfcPropertySetDefinitionSet", "IfcComplexNumber",
     "IfcCompoundPlaneAngleMeasure"}

\* C10 (an unknown type name is never a silent pass): a call of typechecker
\* for a type of kind Representation/Type, Representation/Other or
\* Representation/Sequence whose name the checker of that kind does not
\* recognise returns "The typename is not in dictionary"
C10_UnknownTypeNotSilent ==
    (/\ pc = "typed"
     /\ types[arg.typename].type_definition
            \in {"Representation/Type", "Representation/Other", "Representation/Sequence"}
     /\ arg.typename \notin RecognisedNames)
    => ret = "The typename is not in dictionary"

\* the value is a compound angle of 3 or 4 integer components of which at
\* least one is strictly negative and at least one strictly positive
MixedSign(value) ==
    LET values == Split(value)
    IN  /\ Len(values) \in {3, 4}
        /\ \A k \in 1..Len(values) : IsInt(values[k])
        /\ \E k \in 1..Len(values) : IntTable[values[k]] < 0
        /\ \E k \in 1..Len(values) : IntTable[values[k]] > 0

\* C11 (compound-angle same-sign invariant): a call of typechecker on a
\* value of type IfcCompoundPlaneAngleMeasure with 3 or 4 integer components,
\* one strictly negative and one strictly positive, returns a result other
\* than True
C11_MixedSignReported ==
    (/\ pc = "typed"
     /\ arg.typename = "IfcCompoundPlaneAngleMeasure"
     /\ MixedSign(arg.value))
    => ret # "True"

\* the value has a component count other than 3 or 4, or a component that
\* is not an integer literal
BadArityOrKind(value) ==
    LET values == Split(value)
    IN  \/ Len(values) \notin {3, 4}
        \/ \E k \in 1..Len(values) : ~IsInt(values[k])

\* C12 (compound-angle arity and slot kind are violations, not crashes): a
\* call of typechecker_sequence on a value of type
\* IfcCompoundPlaneAngleMeasure with a component count other than 3 or 4, or
\* with a component that is not an integer literal, raises no exception and
\* returns a result other than True
C12_ArityAndKindNoCrash ==
    (/\ pc = "sequenced"
     /\ arg.typename = "IfcCompoundPlaneAngleMeasure"
     /\ BadArityOrKind(arg.value))
    => (~IsRaise(ret) /\ ret # "True")

----------------------------------------------------------------------------
(* The validation pass on a given document.  The documents are read at     *)
(* once: elements of type IfcC with every combination of attributes the    *)
(* attribute checks tell apart, documents in which an element of type     *)
(* IfcR is referred to from elsewhere, and documents for the rules and the *)
(* type of a child.                                                        *)

\* the element e as a child of element p
Under(e, p) == [e EXCEPT !.parent = p]

IdPart == {NoAttrib, [id |-> "c"]}

NamePart == {NoAttrib, [Name |-> ""], [Name |-> "x"]}

ExtraPart ==
    {NoAttrib, [Tag |-> ""], [Tag |-> "x"]}
    \cup {[Sizes |-> v] : v \in {"1", "x", "1 2", "1 2 3", "1 2 3 4", "1 abc", "1 2 "}}
    \cup {[Codes |-> v] : v \in {"1", "1 2 3 4 5"}}
    \cup {[Pair |-> v] : v \in {"1 2", "1 2 "}}
    \cup {[Grid |-> v] : v \in {"1", "x", "1 2", "1 2 ", "1 2 3", "1 2 3 4", "1 2 3 4 5"}}
    \cup {[Mesh |-> v] : v \in {"1", "1 2 3 4 5"}}
    \cup {[Angle |-> v] : v \in {"10 20 30", "-10 20 30", "10 20 x"}}

\* <ifcXML><header/><IfcC .../></ifcXML>
AttrDocs ==
    {<<RootElem, HeaderElem, Under(Elem("IfcC", i @@ n @@ x, "None", "ok"), 1)>> :
        i \in IdPart, n \in NamePart, x \in ExtraPart}

\* documents around an element of type IfcR, whose child Owner is required
InboundDocs ==
    LET A == Under(Elem("IfcA", [id |-> "a", Name |-> "x"], "None", "ok"), 1)
        R == Under(Elem("IfcR", [id |-> "c"], "None", "ok"), 1)
        E(tag, attrib, p) == Under(Elem(tag, attrib, "None", "ok"), p)
    IN  {<<RootElem, HeaderElem, R>>,
         <<RootElem, HeaderElem, E("IfcR", NoAttrib, 1)>>,
         <<RootElem, HeaderElem, R, E("Owner", [id |-> "a", Name |-> "x"], 3)>>,
         <<RootElem, HeaderElem, E("IfcB", [ref |-> "c"], 1), R>>,
         <<RootElem, HeaderElem, A, E("One", [ref |-> "c"], 3), R>>,
         <<RootElem, HeaderElem, A, E("Rel", NoAttrib, 3), E("IfcR", [ref |-> "c"], 4), R>>,
         <<RootElem, HeaderElem, A, E("Rel", NoAttrib, 3), E("IfcR", [id |-> "c"], 4)>>,
         <<RootElem, HeaderElem, A, E("One", [id |-> "c"], 3)>>,
         <<RootElem, HeaderElem, A, E("Sel", NoAttrib, 3), E("IfcLabel-wrapper", NoAttrib, 4)>>}

\* documents around elements of type IfcB2, which inherits rules from IfcB
\* and IfcRoot, and around a child Part (declared type IfcB) of an element
\* of type IfcA, with and without a type attribute
RuleDocs ==
    LET E(tag, attrib, beh, p) == Under(Elem(tag, attrib, "None", beh), p)
    IN  {<<RootElem, HeaderElem, E("IfcB2", i, b, 1)>> :
            i \in IdPart, b \in {"ok", "viol", "raise"}}
        \cup {<<RootElem, HeaderElem, E("IfcA", i @@ [Name |-> "x"], "ok", 1),
                E("Part", [id |-> "b"] @@ t, b, 3)>> :
                 i \in IdPart, b \in {"ok", "viol"},
                 t \in {NoAttrib} \cup {[type |-> n] : n \in {"IfcB", "IfcB2", "IfcA", "IfcR", "IfcZ"}}}

\* documents around an element of type IfcD: a list Items, empty or not,
\* and then a relationship One or Rel
RoleDocs ==
    LET E(tag, attrib, beh, p) == Under(Elem(tag, attrib, "None", beh), p)
        D == E("IfcD", [id |-> "a"], "ok", 1)
        Items == E("Items", NoAttrib, "ok", 3)
    IN  {<<RootElem, HeaderElem, D, E("One", [id |-> "c"], "ok", 3)>>,
         <<RootElem, HeaderElem, D, Items, E("One", [id |-> "c"], "ok", 3)>>,
         <<RootElem, HeaderElem, D, Items, E("IfcA", [id |-> "b", Name |-> "x"], "ok", 4),
           E("One", [id |-> "c"], "ok", 3)>>,
         <<RootElem, HeaderElem, D, E("Rel", NoAttrib, "ok", 3), E("IfcR", [id |-> "c"], "ok", 4)>>,
         <<RootElem, HeaderElem, D, Items, E("Rel", NoAttrib, "ok", 3),
           E("IfcR", [id |-> "c"], "ok", 5)>>}

\* documents in which a rule of an element of type IfcA replaces the first
\* element of its list Kids, a reference, by the target of the reference
MoveDocs ==
    LET E(tag, attrib, beh, p) == Under(Elem(tag, attrib, "None", beh), p)
        A == E("IfcA", [id |-> "a", Name |-> "x"], "move", 1)
        Kids == E("Kids", NoAttrib, "ok", 3)
        C == E("IfcC", [id |-> "c", Name |-> "x"], "ok", 1)
    IN  {<<RootElem, HeaderElem, A, Kids, E("IfcB", [ref |-> "b"], "ok", 4), C,
           E("IfcB", [id |-> "b"], "ok", 1)>>,
         <<RootElem, HeaderElem, A, Kids, E("IfcB", [ref |-> "b"], "ok", 4), C,
           E("IfcB2", [id |-> "b"], "viol", 1)>>,
         <<RootElem, HeaderElem, A, Kids, E("IfcB", [ref |-> "q"], "ok", 4), C>>,
         <<RootElem, HeaderElem, A, Kids, E("IfcB", [id |-> "b"], "ok", 4), C>>,
         <<RootElem, HeaderElem, A, C>>}

\* documents whose id/ref links form a cycle: an element that refers to
\* itself, to the element it stands in, two elements that refer to each
\* other, at top level or below two elements
CycleDocs ==
    LET E(tag, attrib, p) == Under(Elem(tag, attrib, "None", "ok"), p)
    IN  {<<RootElem, HeaderElem, E("IfcB", [id |-> "b", ref |-> "b"], 1)>>,
         <<RootElem, HeaderElem, E("IfcA", [id |-> "a", Name |-> "x"], 1),
           E("Part", [ref |-> "a"], 3)>>,
         <<RootElem, HeaderElem, E("IfcA", [id |-> "a", Name |-> "x"], 1),
           E("Kids", NoAttrib, 3), E("IfcB", [id |-> "b", ref |-> "b"], 4),
           E("IfcA", [ref |-> "a"], 4)>>,
         <<RootElem, HeaderElem, E("IfcB", [id |-> "a", ref |-> "b"], 1),
           E("IfcB", [id |-> "b", ref |-> "a"], 1)>>,
         <<RootElem, HeaderElem, E("IfcA", [id |-> "a", Name |-> "x"], 1),
           E("Sel", NoAttrib, 3), Under(Elem("IfcLabel-wrapper", NoAttrib, "x", "ok"), 4),
           E("IfcB", [id |-> "b", ref |-> "b"], 1)>>,
         <<RootElem, HeaderElem, E("IfcA", [id |-> "a", Name |-> "x"], 1),
           E("Part", [id |-> "p", ref |-> "q"], 3),
           E("IfcA", [id |-> "c", Name |-> "x"], 1),
           E("Part", [id |-> "q", ref |-> "p"], 5)>>}

\* documents in which an exception is raised two calls below a call that
\* stands in a try statement: the element Part without id has a rule that
\* returns a message, so building the row raises KeyError, and the type
\* IfcZ named by a Part is no key of the dictionary (line 994)
NestedDocs ==
    LET E(tag, attrib, p) == Under(Elem(tag, attrib, "None", "ok"), p)
        A == E("IfcA", [id |-> "a", Name |-> "x"], 1)
        Bad(p) == Under(Elem("Part", NoAttrib, "None", "viol"), p)
    IN  {<<RootElem, HeaderElem, A, E("One", [id |-> "r"], 3), Bad(4)>>,
         <<RootElem, HeaderElem, A, E("One", [id |-> "r"], 3), Bad(4),
           E("Kids", NoAttrib, 3), E("IfcB", [id |-> "b"], 6)>>,
         <<RootElem, HeaderElem, A, E("Rel", NoAttrib, 3), E("IfcR", [id |-> "r"], 4), Bad(5),
           E("IfcR", [id |-> "s"], 4)>>,
         <<RootElem, HeaderElem, A, E("Sel", NoAttrib, 3), E("IfcB", [id |-> "b"], 4), Bad(5),
           E("Part", [id |-> "p"], 3)>>,
         <<RootElem, HeaderElem, A, E("One", [id |-> "r"], 3),
           E("Part", [id |-> "p"], 4), Bad(5)>>,
         <<RootElem, HeaderElem, A, E("One", [id |-> "r"], 3),
           E("Part", [id |-> "p"], 4), E("Part", [id |-> "q"], 5)>>,
         <<RootElem, HeaderElem, A, E("One", [id |-> "r"], 3), E("Part", [id |-> "p"], 4),
           E("Part", [id |-> "b", type |-> "IfcZ"], 5), E("Kids", NoAttrib, 3),
           E("IfcB", [id |-> "k"], 7)>>}

InitDoc ==
    /\ tree \in AttrDocs \cup InboundDocs \cup RuleDocs \cup RoleDocs \cup MoveDocs \cup CycleDocs
               \cup NestedDocs
    /\ pc = "parse"
    /\ top = 1
    /\ stack = <<>>
    /\ ifc_list = <<>>
    /\ findings = <<>>
    /\ visits = <<>>
    /\ rulelog = <<>>
    /\ exc = "none"
    /\ arg = "none"
    /\ ret = "none"

\* the main program once the document is read
NextDoc ==
    \/ UniqueIds
    \/ SkipFirst
    \/ CallTop
    \/ Finish
    \/ ReferenceBranch
    \/ WrapperBranch
    \/ FullBranch
    \/ RunRule
    \/ BeginChildren
    \/ ChildStep
    \/ ElementStep
    \/ Return
    \/ Unwind

SpecDoc == InitDoc /\ [][NextDoc]_vars

\* the same program kept running: the interpreter takes the next step of
\* the one thread whenever there is one
InitLive ==
    /\ tree \in CycleDocs \cup RuleDocs \cup RoleDocs \cup MoveDocs
    /\ pc = "parse"
    /\ top = 1
    /\ stack = <<>>
    /\ ifc_list = <<>>
    /\ findings = <<>>
    /\ visits = <<>>
    /\ rulelog = <<>>
    /\ exc = "none"
    /\ arg = "none"
    /\ ret = "none"

SpecLive == InitLive /\ [][NextDoc]_vars /\ WF_vars(NextDoc)

\* the pass is over: the main loop ended, or an exception left it
PassOver == pc \in {"done", "crashed"}

----------------------------------------------------------------------------
(* Properties of the attribute checks.                                     *)

\* the number of values of a whitespace-separated list: the items between
\* the blanks, which are the items of re.split that are not empty
ValueCount(v) == Cardinality({k \in 1..Len(Split(v)) : Split(v)[k] # ""})

\* the declared parameters of kind "type" of ifcname that have the given
\* is_list, by position
TypeParams(ifcname, is_list) ==
    {i \in 1..Len(entities[ifcname].parameters) :
        /\ entities[ifcname].parameters[i].parameter_type = "type"
        /\ entities[ifcname].parameters[i].is_list = is_list}

\* the parameter at position i of ifcname is present on element n as a raw
\* attribute with a non-empty value
RawPresent(n, ifcname, i) ==
    /\ entities[ifcname].parameter_name[i] \in DOMAIN tree[n].attrib
    /\ tree[n].attrib[entities[ifcname].parameter_name[i]] # ""

\* the message of the type check of the raw attribute at position i
RawTypeMessage(n, ifcname, i) ==
    LET name == entities[ifcname].parameter_name[i]
        param == entities[ifcname].parameters[i]
        value == tree[n].attrib[name]
    IN  TypeMessage(typechecker(value, param.ifcname, param.is_list), name,
            " Value (or list of values) " \o value \o " should be of type " \o param.ifcname)

\* the List size violation findings recorded for element n about the
\* attribute at position i: those that name it in attribute_type, and those
\* that carry a message about it
ListRows(n, ifcname, i) ==
    {j \in 1..Len(findings) :
        /\ findings[j].line = <<n>>
        /\ findings[j].error_type = "List size violation"
        /\ \/ findings[j].attribute_type = entities[ifcname].parameter_name[i]
           \/ findings[j].error_message = RawTypeMessage(n, ifcname, i)}

\* the findings recorded for element n that carry the message of the type
\* check of the attribute at position i
TypeRows(n, ifcname, i) ==
    {j \in 1..Len(findings) :
        /\ findings[j].line = <<n>>
        /\ findings[j].error_message = RawTypeMessage(n, ifcname, i)}

\* the findings recorded for element n with the given error_type and
\* attribute_type
Rows3(n, error_type, attribute_type) ==
    {j \in 1..Len(findings) :
        /\ findings[j].line = <<n>>
        /\ findings[j].error_type = error_type
        /\ findings[j].attribute_type = attribute_type}

\* the cardinality law for the single-list attribute at position i with k
\* values, and the type check made whatever the list size
SingleListLaw(n, ifcname, i, k) ==
    LET param == entities[ifcname].parameters[i]
        viol == \/ k < IntOf(param.list_min)
                \/ param.list_max # "?" /\ k > IntOf(param.list_max)
    IN  /\ Cardinality(ListRows(n, ifcname, i)) = (IF viol THEN 1 ELSE 0)
        /\ Cardinality(TypeRows(n, ifcname, i))
               = (IF RawTypeMessage(n, ifcname, i) = "None" THEN 0 ELSE 1)

\* C13 (cardinality law for list attributes): once the pass is over, for
\* every fully validated node and every declared single-list attribute with
\* bound [min,max] present on it as a non-empty raw attribute with k
\* whitespace-separated values, exactly one List size violation finding is
\* recorded for the attribute iff k < min or (max is not "?" and k > max),
\* none otherwise, and the type check of the values has been made
C13_ListCardinality ==
    PassOver =>
        \A v \in Range(visits) :
            FullVisit(v) =>
                \A i \in TypeParams(v.ifcname, "single") :
                    RawPresent(v.node, v.ifcname, i) =>
                        SingleListLaw(v.node, v.ifcname, i,
                            ValueCount(tree[v.node].attrib[
                                entities[v.ifcname].parameter_name[i]]))

\* the count of findings of the law of C13 on the nodes that carry an id,
\* with a type row counted under the error_type it carries and k the number
\* of items of re.split
ListCardinalityWithId ==
    PassOver =>
        \A v \in Range(visits) :
            (FullVisit(v) /\ "id" \in DOMAIN tree[v.node].attrib) =>
                \A i \in TypeParams(v.ifcname, "single") :
                    RawPresent(v.node, v.ifcname, i) =>
                        LET name == entities[v.ifcname].parameter_name[i]
                            param == entities[v.ifcname].parameters[i]
                            k == Len(Split(tree[v.node].attrib[name]))
                            viol == \/ k < IntOf(param.list_min)
                                    \/ param.list_max # "?" /\ k > IntOf(param.list_max)
                        IN  /\ Cardinality(Rows3(v.node, "List size violation", name))
                                   = (IF viol THEN 1 ELSE 0)
                            /\ Cardinality(TypeRows(v.node, v.ifcname, i))
                                   = (IF RawTypeMessage(v.node, v.ifcname, i) = "None"
                                      THEN 0 ELSE 1)

\* the cardinality law for the double-list attribute at position i with k
\* values
DoubleListLaw(n, ifcname, i, k) ==
    LET param == entities[ifcname].parameters[i]
        viol == \/ k < IntOf(param.list1_min) * IntOf(param.list2_min)
                \/ /\ param.list1_max # "?" /\ param.list2_max # "?"
                   /\ k > IntOf(param.list1_max) * IntOf(param.list2_max)
                \/ /\ param.list2_min = param.list2_max
                   /\ k % IntOf(param.list2_min) # 0
    IN  Cardinality(ListRows(n, ifcname, i)) = (IF viol THEN 1 ELSE 0)

\* C14 (nested-list cardinality): once the pass is over, for every fully
\* validated node and every declared double-list attribute with bounds
\* [min1,max1]x[min2,max2] present on it as a raw attribute with k
\* whitespace-separated values, exactly one List size violation finding is
\* recorded for the attribute iff k < min1*min2, or both maxima are bounded
\* and k > max1*max2, or min2 = max2 and k is not divisible by it, and none
\* otherwise
C14_NestedListCardinality ==
    PassOver =>
        \A v \in Range(visits) :
            FullVisit(v) =>
                \A i \in TypeParams(v.ifcname, "double") :
                    RawPresent(v.node, v.ifcname, i) =>
                        DoubleListLaw(v.node, v.ifcname, i,
                            ValueCount(tree[v.node].attrib[
                                entities[v.ifcname].parameter_name[i]]))

\* the count of findings of the law of C14 on the nodes that carry an id,
\* with the rows that name the attribute in attribute_type and k the number
\* of items of re.split
NestedListCardinalityWithId ==
    PassOver =>
        \A v \in Range(visits) :
            (FullVisit(v) /\ "id" \in DOMAIN tree[v.node].attrib) =>
                \A i \in TypeParams(v.ifcname, "double") :
                    RawPresent(v.node, v.ifcname, i) =>
                        LET name == entities[v.ifcname].parameter_name[i]
                            param == entities[v.ifcname].parameters[i]
                            k == Len(Split(tree[v.node].attrib[name]))
                            viol ==
                                \/ k < IntOf(param.list1_min) * IntOf(param.list2_min)
                                \/ /\ param.list1_max # "?" /\ param.list2_max # "?"
                                   /\ k > IntOf(param.list1_max) * IntOf(param.list2_max)
                                \/ /\ param.list2_min = param.list2_max
                                   /\ k % IntOf(param.list2_min) # 0
                        IN  Cardinality(Rows3(v.node, "List size violation", name))
                                = (IF viol THEN 1 ELSE 0)

\* the declared parameters of kind "type" of ifcname that are neither
\* select-typed nor double lists, by position
PlainTypeParams(ifcname) ==
    {i \in TypeParams(ifcname, "no") \cup TypeParams(ifcname, "single") :
        types[entities[ifcname].parameters[i].ifcname].type_definition # "Select"}

\* the Missing Information findings recorded for element n with the message
\* "Required attribute <name><text>"
MissingRows(n, name, text) ==
    {j \in 1..Len(findings) :
        /\ findings[j].line = <<n>>
        /\ findings[j].error_type = "Missing Information"
        /\ findings[j].error_message = "Required attribute " \o name \o text}

\* the messages the type check of an attribute of element n can leave
ValueMessages(n, name, typename) ==
    {"The attribute " \o name \o " has a prohibited value. Value (or list of values) "
         \o tree[n].attrib[k] \o " should be of type " \o typename :
             k \in DOMAIN tree[n].attrib}
    \cup {s \o " (" \o name \o ")" :
             s \in {"The typename is not in dictionary", "Measure type has not been found",
                    "type_type is select?", "Not all values have the same sign"}}

\* the Type and List size violation findings recorded for element n about
\* the attribute: those that name it in attribute_type, and those that carry
\* a message of its type check
ValueRows(n, name, typename) ==
    {j \in 1..Len(findings) :
        /\ findings[j].line = <<n>>
        /\ findings[j].error_type \in {"Type", "List size violation"}
        /\ \/ findings[j].attribute_type = name
           \/ findings[j].error_message \in ValueMessages(n, name, typename)}

\* the law of the missing attribute for the parameter at position i
MissingLaw(n, ifcname, i) ==
    LET name == entities[ifcname].parameter_name[i]
        param == entities[ifcname].parameters[i]
        a == tree[n].attrib
        due == IF param.required THEN 1 ELSE 0
    IN  /\ name \notin DOMAIN a =>
               /\ Cardinality(MissingRows(n, name, " does not exist.")) = due
               /\ MissingRows(n, name, " has no value.") = {}
               /\ ValueRows(n, name, param.ifcname) = {}
        /\ (name \in DOMAIN a /\ a[name] = "") =>
               /\ Cardinality(MissingRows(n, name, " has no value.")) = due
               /\ MissingRows(n, name, " does not exist.") = {}
               /\ ValueRows(n, name, param.ifcname) = {}

\* C15 (missing required attribute): once the pass is over, for every fully
\* validated node and every declared primitive attribute that is neither
\* select-typed nor a double list, exactly one Missing Information finding
\* is recorded when the attribute is required and its key is absent, exactly
\* one when it is required and its value is the empty string, none when it
\* is not required, and in neither case a Type or List size violation
\* finding for it
C15_MissingRequired ==
    PassOver =>
        \A v \in Range(visits) :
            FullVisit(v) => \A i \in PlainTypeParams(v.ifcname) : MissingLaw(v.node, v.ifcname, i)

\* the law of C15 on the nodes that carry an id
MissingRequiredWithId ==
    PassOver =>
        \A v \in Range(visits) :
            (FullVisit(v) /\ "id" \in DOMAIN tree[v.node].attrib)
                => \A i \in PlainTypeParams(v.ifcname) : MissingLaw(v.node, v.ifcname, i)

\* the declared parameters of kind "entity" of ifcname that are required,
\* by position
RequiredEntityParams(ifcname) ==
    {i \in 1..Len(entities[ifcname].parameters) :
        /\ entities[ifcname].parameters[i].parameter_type = "entity"
        /\ entities[ifcname].parameters[i].required}

\* tag is a relationship alias of ifcname whose corresponding role is role
AliasFor(ifcname, tag, role) ==
    \E l \in 1..Len(entities[ifcname].called_as) :
        /\ entities[ifcname].called_as[l] = tag
        /\ entities[ifcname].called_corresponding_entity[l] = role

\* some element refers to element n, and its own tag or the tag of its
\* parent is a relationship alias of ifcname for the role
InboundAs(n, ifcname, role) ==
    /\ "id" \in DOMAIN tree[n].attrib
    /\ \E m \in 1..Len(tree) :
           /\ "ref" \in DOMAIN tree[m].attrib
           /\ tree[m].attrib["ref"] = tree[n].attrib["id"]
           /\ \/ AliasFor(ifcname, tree[m].tag, role)
              \/ tree[m].parent # 0 /\ AliasFor(ifcname, tree[tree[m].parent].tag, role)

\* the findings "Required child <name> does not exist." recorded for element n
MissingChildRows(n, name) ==
    {j \in 1..Len(findings) :
        /\ findings[j].line = <<n>>
        /\ findings[j].error_type = "Missing Information"
        /\ findings[j].error_message = "Required child " \o name \o " does not exist."}

\* the law of the required child for the call v and the parameter at
\* position i
RequiredChildLaw(v, i) ==
    LET name == entities[v.ifcname].parameter_name[i]
    IN  name \notin {tree[c].tag : c \in Range(Children(v.node))} =>
            Cardinality(MissingChildRows(v.node, name))
                = (IF name # v.called_entity /\ ~InboundAs(v.node, v.ifcname, name)
                   THEN 1 ELSE 0)

\* C16 (required child satisfied by an inbound reference): once the pass is
\* over, for every fully validated node and every required child-entity
\* parameter P of its type that is not present as a direct child, exactly
\* one Missing Information finding "Required child P does not exist." is
\* recorded iff P is not the calling role under which the node was reached
\* and no element refers to the node under a relationship alias whose role
\* is P
C16_RequiredChildInbound ==
    PassOver =>
        \A v \in Range(visits) :
            FullVisit(v) => \A i \in RequiredEntityParams(v.ifcname) : RequiredChildLaw(v, i)

----------------------------------------------------------------------------
(* The order of the rules (validator.py:905-962).                          *)

\* the rules bound to a type in entity_dict, in declared order, each with
\* the type it is bound to
BoundRules(ifcname) ==
    LET names == entities[ifcname].rules_name
    IN  IF names = <<"">> THEN <<>> ELSE [k \in 1..Len(names) |-> <<names[k], ifcname>>]

\* the rules inherited from the supertypes supers[i], supers[i + 1], ...
RECURSIVE InheritedRules(_, _)
InheritedRules(supers, i) ==
    IF i > Len(supers) \/ supers = <<"">> THEN <<>>
    ELSE BoundRules(supers[i]) \o InheritedRules(supers, i + 1)

\* the order of invocation the schema prescribes for a node of a type
RuleOrder(ifcname) ==
    IF ifcname \notin DOMAIN entities THEN <<>>
    ELSE BoundRules(ifcname) \o InheritedRules(entities[ifcname].supertypes, 1)

\* the rules invoked so far on element n, each with its entity-type argument
InvokedOn(n) ==
    LET log == SelectSeq(rulelog, LAMBDA r : r.node = n)
    IN  [k \in 1..Len(log) |-> <<log[k].rule, log[k].ifctype>>]

IsPrefix(s, t) == Len(s) <= Len(t) /\ s = SubSeq(t, 1, Len(s))

\* C17 (rule ordering): on every node the rules are invoked in the order
\* own rules (as declared), then the rules of each supertype in chain order;
\* no rule is invoked before the attribute and child checks of the node are
\* over, no child is recursed into before the last rule of the node has been
\* invoked, and every finding from a rule of a supertype S carries the link
\* built from the reference and the name of S
C17_RuleOrdering ==
    /\ \A i \in 1..Len(visits) :
           IsPrefix(InvokedOn(visits[i].node), RuleOrder(visits[i].ifcname))
    /\ \A i \in 1..Len(stack) :
           LET f == stack[i]
           IN  /\ f.pc = "enter" => InvokedOn(f.node) = <<>>
               /\ f.pc \in {"children", "elements"} =>
                      InvokedOn(f.node) = RuleOrder(f.current_ifc)
               /\ i < Len(stack) => f.pc \in {"children", "elements"}
    /\ \A j \in 1..Len(findings) :
           findings[j].error_type = "Parent Rule violation" =>
               \E S \in EntityNames :
                   /\ findings[j].attribute_type = "SUPERTYPE: " \o S
                   /\ findings[j].rule_name \in Range(entities[S].rules_name)
                   /\ findings[j].link = Link(S)

\* a node of a type with a rule of its own and rules of two supertypes has
\* reported a violation of each inherited rule and is recursing into a child
C17_Witness ==
    /\ Len(stack) >= 2
    /\ \E i \in 1..(Len(stack) - 1) :
           /\ Len(BoundRules(stack[i].current_ifc)) >= 1
           /\ Len(RuleOrder(stack[i].current_ifc)) >= 3
           /\ InvokedOn(stack[i].node) = RuleOrder(stack[i].current_ifc)
           /\ Cardinality({findings[j].link : j \in {j \in 1..Len(findings) :
                  /\ findings[j].error_type = "Parent Rule violation"
                  /\ findings[j].line = <<stack[i].node>>}}) = 2

----------------------------------------------------------------------------
(* Properties of the rules.                                                *)

\* the rows about rule rule on element n
RuleRows(n, rule) ==
    {j \in 1..Len(findings) : findings[j].line = <<n>> /\ findings[j].rule_name = rule}

\* the visit in which element n was given to check_children
VisitOf(n) == visits[CHOOSE i \in 1..Len(visits) : visits[i].node = n]

\* the law for one invocation r of a rule: a message is reported by exactly
\* one row, "Rule violation" for a rule of the type of the node and "Parent
\* Rule violation" with attribute_type "SUPERTYPE: S" for a rule of the
\* supertype S, and None by no row
InvocationLaw(r) ==
    LET T == VisitOf(r.node).ifcname
        rule_result == RuleResult(r.node, r.rule, r.ifctype, r.called_entity)
        rows == RuleRows(r.node, r.rule)
    IN  /\ <<r.rule, r.ifctype>> \in Range(RuleOrder(T))
        /\ rule_result = "None" => rows = {}
        /\ rule_result \notin {"None", "raise"} =>
               /\ Cardinality(rows) = 1
               /\ \A j \in rows :
                      /\ findings[j].error_message = rule_result
                      /\ findings[j].error_type =
                             IF r.ifctype = T THEN "Rule violation" ELSE "Parent Rule violation"
                      /\ findings[j].attribute_type =
                             IF r.ifctype = T THEN "" ELSE "SUPERTYPE: " \o r.ifctype

\* every row of a rule violation stems from an invocation of its rule
FromInvocation(j) ==
    findings[j].error_type \in {"Rule violation", "Parent Rule violation"} =>
        \E k \in 1..Len(rulelog) :
            /\ <<rulelog[k].node>> = findings[j].line
            /\ rulelog[k].rule = findings[j].rule_name

\* C18 (inheritance law): the rule-derived rows of a node of type T are one
\* "Rule violation" row per rule of T that returned a message and, for every
\* supertype S of T, one "Parent Rule violation" row per rule of S that
\* returned a message, tagged "SUPERTYPE: S", the rule having been invoked
\* with S as its entity-type argument; a rule that returned None has no row
C18_InheritanceLaw ==
    /\ \A k \in 1..Len(rulelog) : InvocationLaw(rulelog[k])
    /\ \A j \in 1..Len(findings) : FromInvocation(j)

\* the same on the nodes that carry an id
InheritanceLawWithId ==
    /\ \A k \in 1..Len(rulelog) :
           "id" \in DOMAIN tree[rulelog[k].node].attrib => InvocationLaw(rulelog[k])
    /\ \A j \in 1..Len(findings) : FromInvocation(j)

\* the child of a validated element below which (or as which) element n
\* stands: n itself, or the list element that holds n
SlotOf(n) == IF tree[n].parent \in VisitedNodes \cup {1} THEN n ELSE tree[n].parent

\* the calling role the schema gives element n: the corresponding_entity of
\* the calling parameter of its owner's type that its slot is named after,
\* "None" for a top-level element and for a slot named after a parameter
RoleOf(n) ==
    LET owner == tree[SlotOf(n)].parent
        tag == tree[SlotOf(n)].tag
        T == IF owner \in VisitedNodes THEN VisitOf(owner).ifcname ELSE "None"
    IN  IF owner \in {0, 1} \/ T \notin DOMAIN entities THEN "None"
        ELSE IF tag \in Range(entities[T].parameter_name) THEN "None"
        ELSE IF tag \in Range(entities[T].calling_parameter_name)
             THEN entities[T].calling_parameters[
                      IndexOf(entities[T].calling_parameter_name, tag)].corresponding_entity
             ELSE "None"

\* C19 (calling role): the calling role every rule is invoked with on a node
\* is the corresponding_entity of the calling parameter slot through which
\* the node was directly reached, and None for a top-level node and a node
\* reached through a plain, list or select slot, whatever the role of its
\* ancestors
C19_CallingRole ==
    \A k \in 1..Len(rulelog) : rulelog[k].called_entity = RoleOf(rulelog[k].node)

----------------------------------------------------------------------------
(* Properties of the type of a child (validator.py:979-1001, 1083-1087).   *)

\* the type the child c names itself: its type attribute or, failing that,
\* its tag if that starts with "Ifc"; "no" if it names none
NamedType(c) ==
    IF TypeAttr \in DOMAIN tree[c].attrib THEN tree[c].attrib[TypeAttr]
    ELSE IF StartsWithIfc(tree[c].tag) THEN tree[c].tag ELSE "no"

\* the children of p that stand in a plain slot of the type T (one entity,
\* no list) and name a type other than the declared one
Retyped(p, T) ==
    {c \in Range(Children(p)) :
        /\ tree[c].tag \in Range(entities[T].parameter_name)
        /\ LET param == entities[T].parameters[IndexOf(entities[T].parameter_name, tree[c].tag)]
           IN  /\ param.is_list = "no"
               /\ param.parameter_type = "entity"
               /\ NamedType(c) \notin {"no", param.ifcname}}

\* the declared type of the slot of child c of a node of type T
DeclaredType(T, c) ==
    entities[T].parameters[IndexOf(entities[T].parameter_name, tree[c].tag)].ifcname

\* D is in the supertype chain of S
IsSubtype(S, D) == S \in DOMAIN entities /\ D \in Range(entities[S].supertypes)

\* check_children has been called on element c under the type name
ValidatedAs(c, name) == \E i \in 1..Len(visits) : visits[i].node = c /\ visits[i].ifcname = name

\* the "Entity" rows on the line of element p
EntityRows(p) ==
    {j \in 1..Len(findings) :
        /\ findings[j].line = <<p>>
        /\ findings[j].error_type = "Entity"
        /\ findings[j].error_message = "Entity is using the wrong type."}

\* the law for the node p of type T once the pass is over: a child that
\* names a subtype of the declared type is validated as that subtype, any
\* other as the declared type, and there is one "Entity" row for each of
\* the latter and none else
CovariantLaw(p, T) ==
    LET wrong == {c \in Retyped(p, T) : ~IsSubtype(NamedType(c), DeclaredType(T, c))}
    IN  /\ \A c \in Retyped(p, T) \ wrong : ValidatedAs(c, NamedType(c))
        /\ \A c \in wrong : ValidatedAs(c, DeclaredType(T, c))
        /\ Cardinality(EntityRows(p)) = Cardinality(wrong)

\* C20 (covariant child type): a child in a plain slot of declared type D
\* that names a type S other than D is validated as S without a finding if
\* D is a supertype of S, and otherwise gets exactly one "Entity" finding
\* "Entity is using the wrong type." and is validated as D
C20_CovariantChild ==
    PassOver =>
        \A i \in 1..Len(visits) :
            FullVisit(visits[i]) => CovariantLaw(visits[i].node, visits[i].ifcname)

\* the same where the parent carries an id and the named types are types of
\* the dictionary
CovariantChildKnown ==
    PassOver =>
        \A i \in 1..Len(visits) :
            (/\ FullVisit(visits[i])
             /\ "id" \in DOMAIN tree[visits[i].node].attrib
             /\ \A c \in Retyped(visits[i].node, visits[i].ifcname) :
                    NamedType(c) \in DOMAIN entities)
            => CovariantLaw(visits[i].node, visits[i].ifcname)

----------------------------------------------------------------------------
(* Properties of the check of the children (validator.py:569-593).         *)

\* the direct children of n that a node of type T does not declare
UnknownTo(n, T) ==
    {c \in Range(Children(n)) :
        /\ tree[c].tag \notin Range(entities[T].parameter_name)
        /\ tree[c].tag \notin Range(entities[T].calling_parameter_name)}

\* the "Unknown child" rows on the line of n that name the tag
UnknownChildRows(n, T, tag) ==
    {j \in 1..Len(findings) :
        /\ findings[j].line = <<n>>
        /\ findings[j].error_type = "Unknown child"
        /\ findings[j].error_message =
               "The element " \o tag \o " is not a valid entity/child for the current entity type "
                   \o T \o " according to the documentation."}

\* the elements below element n
Below(n) == {m \in 1..Len(tree) : m # n /\ n \in AncestorsOrSelf(tree, m)}

\* the rows of n are one per child it does not declare, and no such child
\* nor anything below it is given to check_children
UnknownChildLaw(n, T) ==
    /\ \A c \in Range(Children(n)) :
           Cardinality(UnknownChildRows(n, T, tree[c].tag)) =
               Cardinality({d \in UnknownTo(n, T) : tree[d].tag = tree[c].tag})
    /\ \A c \in UnknownTo(n, T) : (({c} \cup Below(c)) \cap VisitedNodes) = {}

\* C21 (unknown children): once the pass is over, every node validated in
\* full has exactly one "Unknown child" row per direct child whose tag is
\* neither a parameter name nor a calling parameter name of its type and
\* none for a declared child; no unknown child is recursed into, and every
\* element that stands in the slot of an accepted child is
C21_UnknownChildren ==
    PassOver =>
        \A i \in 1..Len(visits) :
            FullVisit(visits[i]) =>
                /\ UnknownChildLaw(visits[i].node, visits[i].ifcname)
                /\ Expected(visits[i].node, visits[i].ifcname) \subseteq VisitedNodes

\* the rows and the unknown children alone, on the nodes that carry an id
UnknownChildrenWithId ==
    PassOver =>
        \A i \in 1..Len(visits) :
            (FullVisit(visits[i]) /\ "id" \in DOMAIN tree[visits[i].node].attrib)
            => UnknownChildLaw(visits[i].node, visits[i].ifcname)

----------------------------------------------------------------------------
(* Properties of the documentation link.                                   *)

\* the link of the row is built from the type the row names: the supertype
\* of "SUPERTYPE: S" if the row stems from a rule of a supertype, the type
\* in entity_type otherwise
LinkLaw(row) ==
    row.link # "" =>
        IF \E S \in EntityNames : row.attribute_type = "SUPERTYPE: " \o S
        THEN \E S \in EntityNames :
                 row.attribute_type = "SUPERTYPE: " \o S /\ row.link = Link(S)
        ELSE row.entity_type \in EntityNames /\ row.link = Link(row.entity_type)

\* C22 (documentation link): every finding with a link has the link built
\* from the reference and the lower-cased name of the type in its
\* entity_type field or, for a finding of a supertype rule, of that
\* supertype; also the "List size violation" and "Entity" findings appended
\* while the children of a node are iterated
C22_DocumentationLink ==
    \A j \in 1..Len(findings) : LinkLaw(findings[j])

\* the same for the rows appended before the loop over the children: by the
\* attribute and child checks and by the rules
LinkBeforeChildren ==
    [][(stack # <<>> /\ TopFrame.pc \in {"enter", "rules"} /\ exc = "none") =>
          \A j \in (Len(findings) + 1)..Len(findings') : LinkLaw(findings'[j])]_vars

----------------------------------------------------------------------------
(* Properties of the range checks (validator.py:443-469).                  *)

\* the strings of the universe that denote a number, with ten times the
\* number ("inf" is above every bound)
Numeric(v) == v \in (DOMAIN IntTable \cup {"0.5", "1.5", "-0.5", "inf"})

Number10(v) ==
    CASE v \in DOMAIN IntTable -> 10 * IntTable[v]
      [] v = "0.5" -> 5 [] v = "1.5" -> 15 [] v = "-0.5" -> -5
      [] OTHER -> 10 * 1000000

\* the value lies in the domain of the type: min <= v (min < v for an
\* exclusive type) and v <= max unless max is the unbounded marker "..."
InDomain(v, typename) ==
    LET deflist == types[typename].definition_list
        lo == Number10(deflist[1])
        hi == deflist[Len(deflist)]
    IN  /\ Numeric(v)
        /\ IF types[typename].type_definition = "Representation/MinMax"
           THEN lo <= Number10(v) ELSE lo < Number10(v)
        /\ (hi = "..." \/ Number10(v) <= Number10(hi))

\* typechecker has been called on one value for a type with a range
RangeChecked ==
    /\ pc = "typed"
    /\ types[arg.typename].type_definition
           \in {"Representation/MinMax", "Representation/ExclusiveMinMax"}
    /\ ~HasBlank(arg.value)

\* C23 (range checks): for a type of kind Representation/MinMax or
\* Representation/ExclusiveMinMax typechecker accepts a value exactly if it
\* is a number within the domain of the type (lower end inclusive for
\* MinMax, exclusive for ExclusiveMinMax; upper end inclusive or unbounded),
\* and rejects what is not a number
C23_RangeChecks ==
    RangeChecked => (ret = "True" <=> InDomain(arg.value, arg.typename))

\* the same for the values float() does not turn into nan
RangeChecksNoNaN ==
    (RangeChecked /\ arg.value # "nan") =>
        /\ ret \in {"True", "False"}
        /\ ret = "True" <=> InDomain(arg.value, arg.typename)

----------------------------------------------------------------------------
(* The program run twice on the same document (ifchecker_main.py:20-59):   *)
(* the second run starts from the same tree and dictionaries with an empty *)
(* validation output.  arg keeps the number of the run and the findings    *)
(* and the end of the first run.                                           *)

\* documents in which one or two ids are carried by several elements
DuplicateDocs ==
    {<<RootElem, HeaderElem,
       Under(Elem("IfcB", [id |-> ids[1]], "None", "ok"), 1),
       Under(Elem("IfcB", [id |-> ids[2]], "None", "ok"), 1),
       Under(Elem("IfcB", [id |-> ids[3]], "None", "ok"), 1),
       Under(Elem("IfcB", [id |-> ids[4]], "None", "ok"), 1)>> :
        ids \in {<<"a", "a", "b", "b">>, <<"b", "a", "b", "a">>, <<"a", "a", "a", "b">>,
                 <<"a", "b", "c", "c">>}}

InitTwice ==
    /\ tree \in DuplicateDocs \cup InboundDocs \cup RuleDocs \cup RoleDocs
    /\ pc = "parse"
    /\ top = 1
    /\ stack = <<>>
    /\ ifc_list = <<>>
    /\ findings = <<>>
    /\ visits = <<>>
    /\ rulelog = <<>>
    /\ exc = "none"
    /\ arg = [run |-> 1, findings |-> <<>>, pc |-> "parse"]
    /\ ret = "none"

\* the program is started again on the same input file
Rerun ==
    /\ PassOver
    /\ arg.run = 1
    /\ arg' = [run |-> 2, findings |-> findings, pc |-> pc]
    /\ pc' = "parse"
    /\ top' = 1
    /\ stack' = <<>>
    /\ ifc_list' = <<>>
    /\ findings' = <<>>
    /\ visits' = <<>>
    /\ rulelog' = <<>>
    /\ exc' = "none"
    /\ UNCHANGED <<tree, ret>>

NextTwice ==
    \/ UniqueIds
    \/ SkipFirst
    \/ CallTop
    \/ Finish
    \/ ReferenceBranch
    \/ WrapperBranch
    \/ FullBranch
    \/ RunRule
    \/ BeginChildren
    \/ ChildStep
    \/ ElementStep
    \/ Return
    \/ Unwind
    \/ Rerun

SpecTwice == InitTwice /\ [][NextTwice]_vars

\* C24 (determinism): the second run on the same dictionaries and tree ends
\* as the first and with the same findings, element for element and in the
\* same order, also when two or more ids are duplicated in the document
C24_Deterministic ==
    (PassOver /\ arg.run = 2) => (findings = arg.findings /\ pc = arg.pc)

\* the same for the documents in which at most one id is found duplicated
DeterministicOneDuplicate ==
    (PassOver /\ arg.run = 2 /\ Cardinality(DoubleIds) <= 1) =>
        (findings = arg.findings /\ pc = arg.pc)

\* the same for the findings as a collection: the two runs differ in order only
SameFindingsAsBag ==
    (PassOver /\ arg.run = 2) =>
        /\ Len(findings) = Len(arg.findings)
        /\ \A j \in 1..Len(findings) :
               Cardinality({k \in 1..Len(findings) : findings[k] = findings[j]})
                   = Cardinality({k \in 1..Len(findings) : arg.findings[k] = findings[j]})

----------------------------------------------------------------------------
(* Properties of the pass as a whole.                                      *)

\* C25 (non-destructiveness): no step of a validation pass (unique_ids,
\* check_children, typechecker, reference_checker, the rules) changes the
\* instance tree: tags, attributes, text and the order and place of the
\* elements are after the pass what they were before it
C25_NonDestructive ==
    [][tree' = tree]_vars

\* the same for every step but the invocation of a rule that assigns the
\* target of a reference into an element
TreeKeptOutsideRules ==
    [][tree' # tree =>
          /\ stack # <<>> /\ TopFrame.pc = "rules"
          /\ tree[TopFrame.node].beh = "move"]_vars

\* an element that is in a cycle of id/ref links: following ref from it
\* leads back to it, or it refers to an element it stands in
RECURSIVE RefChain(_, _)
RefChain(n, steps) ==
    IF steps = 0 \/ "ref" \notin DOMAIN tree[n].attrib \/ ref_check(n) = 0
    THEN {}
    ELSE {ref_check(n)} \cup RefChain(ref_check(n), steps - 1)

InCycle(n) ==
    \/ n \in RefChain(n, Len(tree))
    \/ \E a \in RefChain(n, 1) : n \in Below(a)

PassEnds ==
    <>PassOver

\* the target of a reference is never given to check_children through the
\* reference: every activation is for a top-level node or for an element
\* directly below the node of its caller (or, for an element of a list, one
\* level further down)
NeverDescendsIntoTarget ==
    \A k \in 2..Len(stack) :
        \/ tree[stack[k].node].parent = stack[k-1].node
        \/ tree[tree[stack[k].node].parent].parent = stack[k-1].node

----------------------------------------------------------------------------
(* Rules.IfcDimensionSize (formal_propositions.py:86-177), the helper of   *)
(* the rules that returns the dimension of a curve, point or surface and   *)
(* calls itself on the element a BasisCurve, ParentCurve or BasisSurface   *)
(* leads to.  arg holds the activations of the helper, innermost last.     *)

\* the interpreter's limit on the depth of calls (sys.getrecursionlimit(),
\* 1000 by default), past which a call raises RecursionError
RecursionLimit == 6

\* elem.attrib[self.type] if self.type in elem.attrib else elem.tag
TagOrType(e) ==
    IF TypeAttr \in DOMAIN tree[e].attrib THEN tree[e].attrib[TypeAttr] ELSE tree[e].tag

\* `if "ref" in elem.attrib: elem = self.ref_check(elem)`; 0 for None
Resolved(e) ==
    IF e # 0 /\ "ref" \in DOMAIN tree[e].attrib THEN ref_check(e) ELSE e

DimRaise(kind) == [kind |-> "raise", dim |-> 0, entity |-> 0, ifctype |-> kind]

DimValue(dim) == [kind |-> "dim", dim |-> dim, entity |-> 0, ifctype |-> ""]

\* dim = self.IfcDimensionSize(elem, its type), with elem the resolved
\* element; None has no attrib
DimFollow(e) ==
    IF e = 0 THEN DimRaise("AttributeError")
    ELSE [kind |-> "call", dim |-> 0, entity |-> e, ifctype |-> TagOrType(e)]

\* dim = len(re.split(r"\s+", str(elem.attrib["Coordinates"])))
DimCoordinates(e) ==
    IF e = 0 THEN DimRaise("AttributeError")
    ELSE IF "Coordinates" \notin DOMAIN tree[e].attrib THEN DimRaise("KeyError")
    ELSE DimValue(Len(Split(tree[e].attrib["Coordinates"])))

\* composite = entity.find("Segments")[0], resolved, then its ParentCurve
DimSegments(segments) ==
    IF segments = 0 THEN DimRaise("TypeError")
    ELSE IF Children(segments) = <<>> THEN DimRaise("IndexError")
    ELSE IF Resolved(Children(segments)[1]) = 0 THEN DimRaise("AttributeError")
    ELSE IF Find(Resolved(Children(segments)[1]), "ParentCurve") = 0
         THEN DimRaise("AttributeError")
    ELSE DimFollow(Resolved(Find(Resolved(Children(segments)[1]), "ParentCurve")))

\* one activation of IfcDimensionSize(entity, ifctype) up to its return
\* statement, its recursive call or the exception it raises (the branches
\* for the types of the documents here)
DimensionStep(entity, ifctype) ==
    CASE ifctype \in {"IfcCompositeCurve", "IfcCompositeCurveOnSurface",
                      "IfcBoundaryCurve", "IfcOuterBoundaryCurve"} ->
            DimSegments(Find(entity, "Segments"))
      [] ifctype = "IfcLine" -> DimCoordinates(Resolved(Find(entity, "Pnt")))
      [] ifctype = "IfcOffsetCurve2D" -> DimValue(2)
      [] ifctype \in {"IfcOffsetCurve3D", "IfcPcurve"} -> DimValue(3)
      [] ifctype \in {"IfcTrimmedCurve", "IfcPointOnCurve"} ->
            DimFollow(Resolved(Find(entity, "BasisCurve")))
      [] ifctype \in {"IfcSurfaceCurve", "IfcIntersectionCurve", "IfcSeamCurve"} ->
            DimValue(3)
      [] ifctype = "IfcCartesianPoint" -> DimCoordinates(entity)
      [] ifctype = "IfcPointOnSurface" ->
            DimFollow(Resolved(Find(entity, "BasisSurface")))
      [] OTHER ->
            IF ifctype = "IfcSurface" THEN DimValue(3)
            ELSE IF ifctype \notin EntityNames THEN DimRaise("KeyError")
            ELSE IF "IfcSurface" \in Range(SupertypesOf(ifctype)) THEN DimValue(3)
            ELSE DimValue(0)

\* documents of curves, points and surfaces; in the first four the
\* references lead back to an element they were followed from
DimDocs ==
    LET E(tag, attrib, p) == Under(Elem(tag, attrib, "None", "ok"), p)
        T(id, p) == E("IfcTrimmedCurve", [id |-> id], p)
        Line(id, p) == E("IfcLine", [id |-> id], p)
        Typed(tag, type, p) == Under(Elem(tag, [k \in {TypeAttr} |-> type], "None", "ok"), p)
    IN  {<<RootElem, HeaderElem, T("t", 1), E("BasisCurve", [ref |-> "t"], 3)>>,
         <<RootElem, HeaderElem, T("t", 1), E("BasisCurve", [ref |-> "u"], 3),
           T("u", 1), E("BasisCurve", [ref |-> "t"], 5)>>,
         <<RootElem, HeaderElem, E("IfcPointOnCurve", [id |-> "p"], 1),
           E("BasisCurve", [ref |-> "t"], 3), T("t", 1), E("BasisCurve", [ref |-> "t"], 5)>>,
         <<RootElem, HeaderElem, E("IfcCompositeCurve", [id |-> "c"], 1),
           E("Segments", NoAttrib, 3), E("IfcCompositeCurveSegment", [id |-> "s"], 4),
           E("ParentCurve", [ref |-> "c"], 5)>>,
         <<RootElem, HeaderElem, T("t", 1), E("BasisCurve", [ref |-> "l"], 3),
           Line("l", 1), E("Pnt", [Coordinates |-> "1 2"], 5)>>,
         <<RootElem, HeaderElem, T("t", 1), Typed("BasisCurve", "IfcTrimmedCurve", 3),
           Typed("BasisCurve", "IfcLine", 4), E("Pnt", [ref |-> "p"], 5),
           E("IfcCartesianPoint", [id |-> "p", Coordinates |-> "10 20 30"], 1)>>,
         <<RootElem, HeaderElem, E("IfcCompositeCurve", [id |-> "c"], 1),
           E("Segments", NoAttrib, 3), E("IfcCompositeCurveSegment", [ref |-> "s"], 4),
           E("IfcCompositeCurveSegment", [id |-> "s"], 1),
           Typed("ParentCurve", "IfcOffsetCurve2D", 6)>>,
         <<RootElem, HeaderElem, E("IfcPointOnSurface", [id |-> "p"], 1),
           Typed("BasisSurface", "IfcB", 3), E("IfcCompositeCurve", [id |-> "c"], 1),
           E("Segments", NoAttrib, 5)>>,
         <<RootElem, HeaderElem, E("IfcPointOnSurface", [id |-> "p"], 1),
           Typed("BasisSurface", "IfcPlane", 3), T("t", 1),
           E("BasisCurve", [ref |-> "q"], 5), E("IfcPcurve", [id |-> "c"], 1)>>,
         <<RootElem, HeaderElem, T("t", 1), E("IfcLine", [id |-> "l"], 1),
           E("IfcCartesianPoint", [id |-> "p"], 1),
           E("IfcCartesianPoint", [id |-> "x", Coordinates |-> "x"], 1)>>}

InitDim ==
    /\ tree \in DimDocs
    /\ pc = "rule"
    /\ top = 1
    /\ stack = <<>>
    /\ ifc_list = <<>>
    /\ findings = <<>>
    /\ visits = <<>>
    /\ rulelog = <<>>
    /\ exc = "none"
    /\ arg = <<>>
    /\ ret = "none"

\* a rule calls self.IfcDimensionSize(elem, elem.tag) on an element of the
\* document, as ConsistentDim does for the elements of a geometric set
\* (formal_propositions.py:1350-1354)
DimCall ==
    /\ pc = "rule"
    /\ \E elem \in 3..Len(tree) :
           /\ tree[elem].parent = 1
           /\ arg' = <<[entity |-> elem, ifctype |-> tree[elem].tag]>>
    /\ pc' = "dimension"
    /\ UNCHANGED <<tree, top, stack, ifc_list, findings, visits, rulelog, exc, ret>>

\* the innermost activation runs to its recursive call, which is one more
\* activation unless the limit of the interpreter is reached
DimRecurse ==
    /\ pc = "dimension" /\ exc = "none" /\ ret = "none"
    /\ LET a == arg[Len(arg)]
           step == DimensionStep(a.entity, a.ifctype)
       IN  /\ step.kind = "call"
           /\ IF Len(arg) < RecursionLimit
              THEN /\ arg' = Append(arg, [entity |-> step.entity, ifctype |-> step.ifctype])
                   /\ exc' = exc
              ELSE /\ arg' = arg
                   /\ exc' = "raise RecursionError"
    /\ UNCHANGED <<tree, pc, top, stack, ifc_list, findings, visits, rulelog, ret>>

\* the dimension as ret holds it
Numeral(dim) == IF dim = 0 THEN "0" ELSE <<"1", "2", "3", "4", "5">>[dim]

\* the innermost activation runs to `return dim`, or raises
DimCompute ==
    /\ pc = "dimension" /\ exc = "none" /\ ret = "none"
    /\ LET a == arg[Len(arg)]
           step == DimensionStep(a.entity, a.ifctype)
       IN  /\ step.kind # "call"
           /\ ret' = IF step.kind = "dim" THEN Numeral(step.dim) ELSE ret
           /\ exc' = IF step.kind = "raise" THEN "raise " \o step.ifctype ELSE exc
    /\ UNCHANGED <<tree, pc, top, stack, ifc_list, findings, visits, rulelog, arg>>

\* an activation is over: `return dim` hands the dimension to its caller,
\* which returns it in turn, and an exception passes through the caller
\* (there is no try statement in IfcDimensionSize)
DimReturn ==
    /\ pc = "dimension" /\ (ret # "none" \/ exc # "none")
    /\ arg # <<>>
    /\ arg' = SubSeq(arg, 1, Len(arg) - 1)
    /\ pc' = IF Len(arg) = 1 THEN "dimensioned" ELSE pc
    /\ UNCHANGED <<tree, top, stack, ifc_list, findings, visits, rulelog, exc, ret>>

NextDim ==
    \/ DimCall
    \/ DimRecurse
    \/ DimCompute
    \/ DimReturn

SpecDim == InitDim /\ [][NextDim]_vars

\* C27 (bounded recursion in the rule helpers): on every document, cyclic
\* references included, the calls IfcDimensionSize makes to itself are
\* finitely many: no element is handed to it twice in one chain of calls,
\* so a chain is no longer than the document, and the chain is never ended
\* by the call-stack limit of the language
C27_BoundedRecursion ==
    /\ \A i, j \in 1..Len(arg) : i # j => arg[i].entity # arg[j].entity
    /\ Len(arg) <= Len(tree)
    /\ exc # "raise RecursionError"

\* the documents in which no reference leads back to a curve it was
\* followed from
AcyclicDim ==
    \A n \in 1..Len(tree) :
        "ref" \in DOMAIN tree[n].attrib => tree[n].attrib["ref"] \notin {"t", "u", "c"}

\* on those documents the helper ends without the limit
BoundedWithoutCycle ==
    AcyclicDim =>
        /\ \A i, j \in 1..Len(arg) : i # j => arg[i].entity # arg[j].entity
        /\ exc # "raise RecursionError"

----------------------------------------------------------------------------
(* The local type name and the context stack.                              *)

\* the activation on top is about to look up the slot of its next child
AtChild ==
    /\ stack # <<>> /\ exc = "none"
    /\ TopFrame.pc = "children"
    /\ TopFrame.ci <= Len(Children(TopFrame.node))

\* C28 (sibling slots are resolved against the parent's own type): whenever
\* check_children looks up the slot of a direct child of a node validated
\* as T, the local type name it looks the slot up under is T, whatever the
\* earlier siblings were, in particular after a list or multi-valued slot
\* that holds no element
C28_SiblingSlots ==
    AtChild => TopFrame.ifcname = TopFrame.current_ifc

\* the local name differs from T only after an earlier sibling without
\* elements, or after an except clause has restored it from a context
\* stack that was left too long
StaleOnlyAfterEmpty ==
    (AtChild /\ TopFrame.ifcname # TopFrame.current_ifc)
        => \/ \E j \in 1..(TopFrame.ci - 1) :
                  Children(Children(TopFrame.node)[j]) = <<>>
           \/ \E i \in 1..Len(findings) :
                  findings[i].error_type \in {"An unexpected Error occurred (2)",
                                              "An unexpected Error occurred (4)",
                                              "An unexpected Error occurred (5)"}

\* C29 (context stack discipline): at every entry into check_children the
\* context stack ifc_list is as long as the recursion is deep and ends with
\* the type name the node is validated under; and whenever an activation
\* goes on after a call it made, the call having returned or having ended in
\* the caller's except clause, the stack has the length it had before the
\* push and ends with the caller's own type name
C29_StackDiscipline ==
    /\ \A i \in 1..Len(visits) :
           /\ Len(visits[i].ifc_list) = visits[i].depth
           /\ visits[i].ifc_list[visits[i].depth] = visits[i].ifcname
    /\ (stack # <<>> /\ exc = "none") =>
           /\ Len(ifc_list) = Len(stack)
           /\ ifc_list[Len(ifc_list)] = TopFrame.current_ifc

\* the part about entries and normal returns: as long as no exception was
\* raised below a top-level node, the discipline holds
RaisedBelow ==
    \E i \in 1..Len(findings) :
        findings[i].error_type \in {"An unexpected Error occurred (2)",
                                    "An unexpected Error occurred (4)",
                                    "An unexpected Error occurred (5)"}

DisciplineWithoutExceptions ==
    RaisedBelow \/ C29_StackDiscipline

\* the node carries neither an id nor a ref
NoIdentity(n) == "id" \notin DOMAIN tree[n].attrib /\ "ref" \notin DOMAIN tree[n].attrib

\* the rows of the findings for the node at source line n
RowsOf(n) == {i \in 1..Len(findings) : findings[i].line = <<n>>}

\* C30 (nodes without an id are still reportable): while a node that carries
\* neither id nor ref is validated in the full-validation branch under a type
\* of the dictionary, building a finding never raises KeyError, and once its
\* rules have been invoked a node whose rules return a message has its
\* 'Rule violation' finding
C30_NoIdReportable ==
    \A k \in 1..Len(stack) :
        (NoIdentity(stack[k].node) /\ stack[k].ifcname \in EntityNames) =>
            /\ (k = Len(stack) /\ stack[k].pc \in {"enter", "rules"}) => exc # "raise KeyError"
            /\ (stack[k].pc \in {"children", "elements"} /\ tree[stack[k].node].beh = "viol"
                    /\ RulesOf(stack[k].current_ifc) # <<>>) =>
                   \E i \in RowsOf(stack[k].node) : findings[i].error_type = "Rule violation"

\* a node without id whose validation needs no finding is validated without
\* an exception: the rows are what raises
CleanNodesPass ==
    \A k \in 1..Len(stack) :
        (k = Len(stack) /\ NoIdentity(stack[k].node) /\ stack[k].ifcname \in EntityNames
            /\ stack[k].pc \in {"enter", "rules"} /\ exc = "raise KeyError")
        => \/ tree[stack[k].node].beh # "ok"
           \/ StructuralChecks(stack[k].node, stack[k].ifcname, stack[k].called_entity) # <<>>

====
